---- MODULE Spec2Model ----
(***************************************************************************)
(* Model of the real-time audio core of gemini-realtime-webrtc.           *)
(*                                                                         *)
(* Part 1: audio.PlayoutBuffer (package audio) and the length arithmetic   *)
(* of audio.Resample that Write relies on.                                 *)
(*                                                                         *)
(* Byte slices are kept byte-exact but run-length encoded: a slice is a    *)
(* sequence of segments [src, lo, hi].  src = 0 is a run of hi-lo zero     *)
(* bytes (what make([]byte, n) yields); src = i > 0 is bytes lo..hi-1 of   *)
(* the resampled output of the i-th non-empty Write call.  Every segment   *)
(* is non-empty, so equal byte provenance means equal sequences.           *)
(***************************************************************************)
EXTENDS Integers, Sequences, FiniteSets, TLC

VARIABLES
    buffer,        \* PlayoutBuffer.buffer: the accumulated 48 kHz bytes
    accumulating,  \* PlayoutBuffer.accumulating
    resampler,     \* the fields of the one Resample instance (inFrame/outFrame)
    wpc,           \* per writer goroutine: where it is inside Write
    wdata,         \* per writer goroutine: the argument of its Write call
    wout,          \* per writer goroutine: resampledData
    nw,            \* number of non-empty Write calls made so far
    last,          \* observer: the API call that completed last
    run,           \* observer: progress of a "write k frames, read k+1" run
    closed         \* PlayoutBuffer.Close() has run: pb.resampler == nil

\* Part 3: audio.Dumper over its WavStreamWriter.
VARIABLES
    dwriter,       \* Dumper.writer != nil
    wclosed,       \* WavStreamWriter.closed
    nfclose,       \* number of file.Close() calls on the underlying file
    persisted,     \* number of file.Write() calls that put bytes into the file
    ndcalls,       \* number of Dumper calls made so far
    nclose,        \* number of Dumper.Close() calls made so far
    dlast          \* observer: the Dumper call that completed last

\* Part 4: pipeline.EventBus.
VARIABLES
    running,       \* EventBus.running
    bcancel,       \* EventBus.cancel: the dispatch goroutine it cancels, 0 for nil
    bctxDone,      \* the context given to EventBus.Start is cancelled
    bworkers,      \* the dispatch goroutines spawned by Start, in order
    eventChan,     \* EventBus.eventChan
    subscribers,   \* EventBus.subscribers: per event type, the slice of channels
    subChan,       \* per subscriber channel: the events it holds
    bpub,          \* per publisher goroutine: where it is inside Publish
    npub,          \* number of Publish calls made so far
    nsub,          \* number of Subscribe calls made so far
    nunsub,        \* number of Unsubscribe calls made so far
    bobs           \* observer: the sends the bus made, the subscriptions it saw

\* Part 5: one audio.Resample instance of any configuration and its caller.
VARIABLES
    rinst,         \* what NewResample returned: the instance made, or nil
    rin,           \* the input of the latest Resample call
    rres           \* what the latest Resample call returned (or that it panicked)

\* Part 6: the goroutine that receives from the AI backend and feeds a
\* PlayoutBuffer (the buffer and accumulating fields of Part 1).
VARIABLES
    fpath,         \* which code feeds the buffer: the gateway or the pipeline
    fpc,           \* position of the goroutine that calls session.Receive()
    fmsg,          \* the backend message it holds
    fchan,         \* the queue from GeminiElement to WebRTCSinkElement
    nback,         \* number of messages the backend has delivered so far
    fint           \* observer: the interrupting message no Clear() has followed yet

\* Part 2: pipeline.Pipeline, its Link tasks and the Elements' workers.
VARIABLES
    kind,          \* per Element: which Element implementation it is
    InChan,        \* per Element: BaseElement.InChan (buffered channel)
    OutChan,       \* per Element: BaseElement.OutChan (buffered channel)
    inClosed,      \* per Element: number of close(b.In()) executed
    outClosed,     \* per Element: OutChan has been closed
    ctxDone,       \* the context given to Pipeline.Start / Element.Start is cancelled
    cancel,        \* per Element: e.cancel != nil
    ectx,          \* per Element: the context derived in Start was cancelled by e.cancel()
    wg,            \* per Element: counter of e.wg
    wk,            \* per Element: position of its two worker goroutines
    hold,          \* per Element: the message each worker is about to send
    lpc,           \* per Link(a, b), indexed by a: position of the forwarding goroutine
    lhold,         \* per Link: the message taken from a.Out()
    session,       \* per Element: e.session != nil (GeminiElement)
    stopPc,        \* per Element: position of the Stop() call in progress
    nstop,         \* per Element: number of Stop() calls that returned
    nrel,          \* per Element: number of times its owned resources were released
    owned,         \* per Element: its resource pointers (dumper, playout, resample) are non-nil
    ppc,           \* the goroutine calling Pipeline.Start / Pipeline.Stop
    startFails,    \* the Elements whose Start returns an error
    crashed,       \* a goroutine panicked: the process is gone
    nsent,         \* number of messages the producer has sent so far
    obs            \* observer: what producers and queues have seen

playoutVars == <<buffer, accumulating, resampler, wpc, wdata, wout, nw, last, run, closed>>

pipelineVars == <<kind, InChan, OutChan, inClosed, outClosed, ctxDone, cancel,
                  ectx, wg, wk, hold, lpc, lhold, session, stopPc, nstop, nrel, owned,
                  ppc, startFails, crashed, nsent, obs>>

dumperVars == <<dwriter, wclosed, nfclose, persisted, ndcalls, nclose, dlast>>

busVars == <<running, bcancel, bctxDone, bworkers, eventChan, subscribers,
             subChan, bpub, npub, nsub, nunsub, bobs>>

resamplerVars == <<rinst, rin, rres>>

feedVars == <<fpath, fpc, fmsg, fchan, nback, fint>>

\* what the actions of one part leave alone
notPlayoutVars == <<pipelineVars, dumperVars, busVars, resamplerVars, feedVars>>

notPipelineVars == <<playoutVars, dumperVars, busVars, resamplerVars, feedVars>>

notDumperVars == <<playoutVars, pipelineVars, busVars, resamplerVars, feedVars>>

notBusVars == <<playoutVars, pipelineVars, dumperVars, resamplerVars, feedVars>>

notResamplerVars == <<playoutVars, pipelineVars, dumperVars, busVars, feedVars>>

vars == <<playoutVars, pipelineVars, dumperVars, busVars, resamplerVars, feedVars>>

(***************************************************************************)
(* Bounds of the model.                                                    *)
(***************************************************************************)
MaxWrites == 4
MaxConcWrites == 3
QueueCap == 2
MaxMsgs == 3
MaxStops == 2
MaxCloseWrites == 2
MaxDumperCalls == 5
MaxBusStarts == 2
SubChanCap == 1
MaxSubscribes == 3
MaxUnsubscribes == 1
MaxPublishes == 2
MaxBackendMsgs == 3

(***************************************************************************)
(* Program constants.                                                      *)
(***************************************************************************)
InputSampleRate == 24000
OutputSampleRate == 48000
Channels == 1
BytesPerSample == 2
SamplesPerFrame24kHz == (InputSampleRate * 20) \div 1000
BytesPerFrame24kHz == SamplesPerFrame24kHz * BytesPerSample * Channels
SamplesPerFrame48kHz == (OutputSampleRate * 20) \div 1000
BytesPerFrame48kHz == SamplesPerFrame48kHz * BytesPerSample * Channels

Min(a, b) == IF a <= b THEN a ELSE b

(***************************************************************************)
(* Byte slices.                                                            *)
(***************************************************************************)
Seg(src, lo, hi) == [src |-> src, lo |-> lo, hi |-> hi]

SegLen(s) == s.hi - s.lo

\* bytes from..to-1 of segment s (zero runs carry no offsets)
SubSeg(s, from, to) ==
    IF s.src = 0 THEN Seg(0, 0, to - from) ELSE Seg(s.src, s.lo + from, s.lo + to)

\* make([]byte, n)
Zeros(n) == IF n > 0 THEN <<Seg(0, 0, n)>> ELSE <<>>

\* len(b)
RECURSIVE BytesLen(_)
BytesLen(b) == IF b = <<>> THEN 0 ELSE SegLen(Head(b)) + BytesLen(Tail(b))

\* b[:n]
RECURSIVE Take(_, _)
Take(b, n) ==
    IF n <= 0 \/ b = <<>> THEN <<>>
    ELSE LET s == Head(b) IN
         IF SegLen(s) <= n THEN <<s>> \o Take(Tail(b), n - SegLen(s))
         ELSE <<SubSeg(s, 0, n)>>

\* b[n:]
RECURSIVE Drop(_, _)
Drop(b, n) ==
    IF b = <<>> THEN <<>>
    ELSE IF n <= 0 THEN b
    ELSE LET s == Head(b) IN
         IF SegLen(s) <= n THEN Drop(Tail(b), n - SegLen(s))
         ELSE <<SubSeg(s, n, SegLen(s))>> \o Tail(b)

\* merge adjacent zero runs
RECURSIVE Norm(_)
Norm(b) ==
    IF Len(b) < 2 THEN b
    ELSE IF b[1].src = 0 /\ b[2].src = 0
         THEN Norm(<<Seg(0, 0, SegLen(b[1]) + SegLen(b[2]))>> \o SubSeq(b, 3, Len(b)))
         ELSE <<b[1]>> \o Norm(Tail(b))

\* copy(dst, src): the first min(len) bytes of dst are overwritten
Copy(dst, src) ==
    LET m == Min(BytesLen(dst), BytesLen(src))
    IN  Norm(Take(src, m) \o Drop(dst, m))

\* append(b, c...)
Append2(b, c) == Norm(b \o c)

(***************************************************************************)
(* audio.Resample: the arithmetic of Resample() and the fields of the      *)
(* instance it writes on every call.                                       *)
(***************************************************************************)
Layouts == {"mono", "stereo", "other"}

\* inChannels as Resample() derives it from the layout; 0 = unsupported
LayoutChannels(layout) ==
    IF layout = "mono" THEN 1 ELSE IF layout = "stereo" THEN 2 ELSE 0

\* numSamples := len(inputData) / bytesPerFrame
NumSamples(len, inLayout) == len \div (2 * LayoutChannels(inLayout))

\* variant: the two rates exchanged
OutNumSamples_RatesSwapped(len, inRate, outRate, inLayout) ==
    (NumSamples(len, inLayout) * inRate) \div outRate

\* round(n * outRate / inRate), halves upward
Round(n, outRate, inRate) == (2 * n * outRate + inRate) \div (2 * inRate)

\* variant: the quotient rounded to the nearest sample
OutNumSamples_Rounded(len, inRate, outRate, inLayout) ==
    Round(NumSamples(len, inLayout), outRate, inRate)

\* outNumSamples := (numSamples * r.outRate) / r.inRate
OutNumSamples(len, inRate, outRate, inLayout) ==
    (NumSamples(len, inLayout) * outRate) \div inRate

\* byte length of r.outFrame.Data().Bytes(): outNumSamples S16 samples per channel
OutBytes(nbSamples, outLayout) == nbSamples * 2 * LayoutChannels(outLayout)

\* the resampled bytes of input number id, n of them
Resampled(id, n) == IF n > 0 THEN <<Seg(id, 0, n)>> ELSE <<>>

\* NewResample(InputSampleRate, OutputSampleRate, Mono, Mono): frames allocated, unset
NewResample == [inData |-> 0, inNb |-> 0, outNb |-> 0]

\* what Resample() stores in r.inFrame / r.outFrame before converting
ResampleSetup(id, len) ==
    [inData |-> id,
     inNb   |-> NumSamples(len, "mono"),
     outNb  |-> OutNumSamples(len, InputSampleRate, OutputSampleRate, "mono")]

\* The results Resample() can return for the call (id, len) when the instance
\* holds the frame fields r: the output frame as this call set it up, the
\* output frame as the instance holds it now (they differ only when another
\* call wrote the fields in between), or an error from the native layer.
\* A frame of zero samples cannot be allocated: only the error.
ResampleErr == [err |-> TRUE, data |-> <<>>]

ResampleOk(data) == [err |-> FALSE, data |-> data]

ResampleResults(id, len, r) ==
    LET own == ResampleSetup(id, len)
    IN  IF own.inNb = 0 \/ own.outNb = 0 THEN {ResampleErr}
        ELSE {ResampleErr, ResampleOk(Resampled(own.inData, OutBytes(own.outNb, "mono")))}
             \cup (IF r.inNb = 0 \/ r.outNb = 0 THEN {}
                   ELSE {ResampleOk(Resampled(r.inData, OutBytes(r.outNb, "mono")))})

(***************************************************************************)
(* audio.Resample for any configuration: NewResample(inRate, outRate,      *)
(* inLayout, outLayout) and Resample(inputData) on the instance it gave.   *)
(***************************************************************************)
\* sample rates handed to NewResample
Rates == {0, 16000, 48000}

\* output layouts handed to NewResample
OutLayouts == {"mono", "stereo"}

\* inputs handed to Resample: nil, empty, less than one sample, whole
\* numbers of mono and stereo samples, and lengths with trailing bytes
NilInput == [nil |-> TRUE, len |-> 0]

Input(len) == [nil |-> FALSE, len |-> len]

ResampleInputs == {NilInput} \cup {Input(len) : len \in {0, 1, 64, 65, 66, 128, 1920}}

NoInput == [nil |-> TRUE, len |-> -1]

\* NewResample: the instance with the arguments stored as given, or nil and
\* an error when the context or a frame cannot be allocated
Instance(made, inRate, outRate, inLayout, outLayout) ==
    [made |-> made, inRate |-> inRate, outRate |-> outRate,
     inLayout |-> inLayout, outLayout |-> outLayout]

NewResampleResults(inRate, outRate, inLayout, outLayout) ==
    {[err |-> FALSE, r |-> Instance("ok", inRate, outRate, inLayout, outLayout)],
     [err |-> TRUE, r |-> Instance("nil", inRate, outRate, inLayout, outLayout)]}

\* results of one Resample call: nil and an error, the output bytes and nil,
\* or no return at all (the goroutine panics)
NoResult == [kind |-> "none", inNb |-> 0, outNb |-> 0, bytes |-> 0]

ResampleFails == [kind |-> "err", inNb |-> 0, outNb |-> 0, bytes |-> 0]

ResamplePanics == [kind |-> "panic", inNb |-> 0, outNb |-> 0, bytes |-> 0]

ResampleReturns(inNb, outNb, bytes) ==
    [kind |-> "ok", inNb |-> inNb, outNb |-> outNb, bytes |-> bytes]

\* Resample(inputData) on instance r: an unsupported input layout is an
\* error; the division by r.inRate panics when it is zero; a frame of zero
\* samples cannot be allocated; any native call may fail; otherwise the
\* output frame holds outNumSamples samples
ResampleOutcomes(r, len) ==
    IF LayoutChannels(r.inLayout) = 0 THEN {ResampleFails}
    ELSE IF r.inRate = 0 THEN {ResamplePanics}
    ELSE LET inNb == NumSamples(len, r.inLayout)
             outNb == OutNumSamples(len, r.inRate, r.outRate, r.inLayout)
         IN  IF inNb = 0 \/ outNb = 0 THEN {ResampleFails}
             ELSE {ResampleFails,
                   ResampleReturns(inNb, outNb, OutBytes(outNb, r.outLayout))}

\* a backend message: whether ServerContent.ModelTurn carries inline audio,
\* and ServerContent.Interrupted
BackendMsg(id, audio, interrupted) ==
    [id |-> id, audio |-> audio, interrupted |-> interrupted]

NoBackendMsg == BackendMsg(0, FALSE, FALSE)

\* no backend session
NoFeed ==
    /\ fpath = "none"
    /\ fpc = "none"
    /\ fmsg = NoBackendMsg
    /\ fchan = <<>>
    /\ nback = 0
    /\ fint = 0

\* before NewResample is called
NoResampler ==
    /\ rinst = Instance("none", 0, 0, "mono", "mono")
    /\ rin = NoInput
    /\ rres = NoResult

(***************************************************************************)
(* audio.PlayoutBuffer                                                     *)
(***************************************************************************)
\* the goroutines that call Write/Clear on one buffer
Writers == {"w1", "w2"}
\* the program runs one producer goroutine per buffer (the sink element's
\* input worker, the gateway's session handler)
ProgramWriters == {"w1"}

\* byte lengths of the 24 kHz input handed to Write
WriteLens == {0, 2, BytesPerFrame24kHz \div 2, BytesPerFrame24kHz,
              3 * BytesPerFrame24kHz, 5 * BytesPerFrame24kHz}

\* frames of pre-roll ReadFrame waits for while accumulating (5 frames = 100 ms)
AccumulateFrames == 5
\* variant: playback restarts as soon as one frame is buffered
AccumulateBytes_OneFrame == BytesPerFrame48kHz
AccumulateBytes == BytesPerFrame48kHz * AccumulateFrames

NoData == [id |-> 0, len |-> 0]

\* variant: a fresh buffer that waits for the pre-roll
NewPlayoutBuffer_Accumulating == [buffer |-> <<>>, accumulating |-> TRUE]

\* NewPlayoutBuffer(): the fields of a fresh buffer
NewPlayoutBuffer == [buffer |-> <<>>, accumulating |-> FALSE]

\* variant: the frame sized for the input rate
MakeFrame_InputRate == Zeros(BytesPerFrame24kHz)

\* frame := make([]byte, BytesPerFrame48kHz)
MakeFrame == Zeros(BytesPerFrame48kHz)

\* Available(): len(pb.buffer) under the lock
Available == BytesLen(buffer)

\* ReadFrame(): pb.accumulating && len(pb.buffer) < BytesPerFrame48kHz*5
HoldsBack(buf, acc) == acc /\ BytesLen(buf) < AccumulateBytes

\* ReadFrame(): pb.accumulating && len(pb.buffer) >= BytesPerFrame48kHz*5
StartsPlayback(buf, acc) == acc /\ BytesLen(buf) >= AccumulateBytes

\* variant: the frame is copied out but the wrong end of the buffer is cut off
ReadFull_DropsTail(buf, frame) ==
    [frame  |-> Copy(frame, Take(buf, BytesPerFrame48kHz)),
     buffer |-> Take(buf, BytesLen(buf) - BytesPerFrame48kHz)]

\* ReadFrame(): a whole frame is buffered: copy it out and slice it off
ReadFull(buf, frame) ==
    [frame  |-> Copy(frame, Take(buf, BytesPerFrame48kHz)),
     buffer |-> Drop(buf, BytesPerFrame48kHz)]

\* variant: a short remainder is held back for the next Write
ReadPartial_HoldsBack(buf, frame) == [frame |-> frame, buffer |-> buf]

\* ReadFrame(): less than a frame is buffered: copy it out and empty the buffer
ReadPartial(buf, frame) ==
    [frame |-> Copy(frame, buf), buffer |-> Take(buf, 0)]

\* variant: the call that ends the accumulation still returns silence
ReadFrameBody_SkipsTick(buf, acc) ==
    LET frame == MakeFrame
    IN  IF HoldsBack(buf, acc)
        THEN [frame |-> frame, buffer |-> buf, accumulating |-> acc]
        ELSE IF StartsPlayback(buf, acc)
        THEN [frame |-> frame, buffer |-> buf, accumulating |-> FALSE]
        ELSE LET r == IF BytesLen(buf) >= BytesPerFrame48kHz THEN ReadFull(buf, frame)
                      ELSE IF BytesLen(buf) > 0 THEN ReadPartial(buf, frame)
                      ELSE [frame |-> frame, buffer |-> buf]
             IN  [frame |-> r.frame, buffer |-> r.buffer, accumulating |-> acc]

\* variant: a frame that could not be filled arms the pre-roll
ReadFrameBody_UnderrunArms(buf, acc) ==
    LET frame == MakeFrame
    IN  IF HoldsBack(buf, acc)
        THEN [frame |-> frame, buffer |-> buf, accumulating |-> acc]
        ELSE LET acc1 == IF StartsPlayback(buf, acc) THEN FALSE ELSE acc
                 r    == IF BytesLen(buf) >= BytesPerFrame48kHz THEN ReadFull(buf, frame)
                         ELSE IF BytesLen(buf) > 0 THEN ReadPartial(buf, frame)
                         ELSE [frame |-> frame, buffer |-> buf]
             IN  [frame |-> r.frame, buffer |-> r.buffer,
                  accumulating |-> acc1 \/ BytesLen(buf) < BytesPerFrame48kHz]

\* The body of ReadFrame() on buffer buf and flag acc: the frame returned and
\* the fields it leaves.
ReadFrameBody(buf, acc) ==
    LET frame == MakeFrame
    IN  IF HoldsBack(buf, acc)
        THEN [frame |-> frame, buffer |-> buf, accumulating |-> acc]
        ELSE LET acc1 == IF StartsPlayback(buf, acc) THEN FALSE ELSE acc
                 r    == IF BytesLen(buf) >= BytesPerFrame48kHz THEN ReadFull(buf, frame)
                         ELSE IF BytesLen(buf) > 0 THEN ReadPartial(buf, frame)
                         ELSE [frame |-> frame, buffer |-> buf]
             IN  [frame |-> r.frame, buffer |-> r.buffer, accumulating |-> acc1]

\* variant: the bytes are dropped but the pre-roll is not armed
ClearBody_KeepsFlag(buf, acc) == [buffer |-> Take(buf, 0), accumulating |-> acc]

\* The body of Clear(): the fields it leaves.
ClearBody(buf, acc) == [buffer |-> Take(buf, 0), accumulating |-> TRUE]

\* variant: no test for empty input
WriteIsEmpty_Never(len) == FALSE

\* Write(): the len(data) == 0 test that returns nil before resampling
WriteIsEmpty(len) == len = 0

\* variant: the resampled bytes are put in front of what is buffered
WriteAppendBody_InFront(buf, out) == Append2(out, buf)

\* Write(): pb.buffer = append(pb.buffer, resampledData...)
WriteAppendBody(buf, out) == Append2(buf, out)

(***************************************************************************)
(* Observers.  last records the API call that completed last: its          *)
(* arguments, the fields before and after it, and what it returned.  run   *)
(* follows runs that start from an empty, draining buffer, write k whole   *)
(* 20 ms input frames and then only read: k frames written, j frames read. *)
(***************************************************************************)
Call(op, id, len, err, buf0, acc0, buf1, acc1, frame) ==
    [op |-> op, id |-> id, len |-> len, err |-> err,
     buf0 |-> buf0, acc0 |-> acc0, buf1 |-> buf1, acc1 |-> acc1,
     frame |-> frame, prev |-> last.op]

NoRun == [phase |-> "none", k |-> 0, j |-> 0]

RunAfterWrite(len, err, buf0, acc0) ==
    LET n == len \div BytesPerFrame24kHz
    IN  IF err \/ len = 0 \/ len % BytesPerFrame24kHz # 0 THEN NoRun
        ELSE IF run.phase = "w" THEN [phase |-> "w", k |-> run.k + n, j |-> 0]
        ELSE IF buf0 = <<>> /\ ~acc0 THEN [phase |-> "w", k |-> n, j |-> 0]
        ELSE NoRun

RunAfterRead(buf0, acc0) ==
    IF run.phase = "w" THEN [phase |-> "r", k |-> run.k, j |-> 1]
    ELSE IF run.phase = "r" /\ run.j <= run.k THEN [run EXCEPT !.j = run.j + 1]
    ELSE IF buf0 = <<>> /\ ~acc0 THEN [phase |-> "r", k |-> 0, j |-> 1]
    ELSE NoRun

(***************************************************************************)
(* Part 2: state of a Pipeline of Elements.                                *)
(*                                                                         *)
(* Three Elements are registered in the order A, B, C and linked A -> B    *)
(* and B -> C.  The links are made before Pipeline.Start, as in            *)
(* RTCConnectionWrapper.Start, so their goroutines run from the start.     *)
(* A message is [id, type, media]: media = "nil" is a nil AudioData.       *)
(***************************************************************************)
Elems == {"A", "B", "C"}

Registration == <<"A", "B", "C">>

Linked == {"A", "B"}

Succ(a) == IF a = "A" THEN "B" ELSE "C"

Kinds == {"decode", "resample", "encode", "gemini", "sink"}

ChainKind == [A |-> "decode", B |-> "resample", C |-> "encode"]

LoneKind(k) == [A |-> k, B |-> "decode", C |-> "decode"]

Workers == {"w1", "w2"}

\* data: what msg.AudioData.Data is: "ok" a payload the Element can process,
\* "empty" no bytes, "odd" an odd number of bytes, "bad" a payload its
\* decoder, encoder or resampler returns an error for
Msg(id, type, media) == [id |-> id, type |-> type, media |-> media, data |-> "ok"]

WithData(msg, d) == [msg EXCEPT !.data = d]

NoMsg == Msg(0, "none", "nil")

\* what a receive from a closed, drained channel yields: Type is
\* MsgTypeAudio (iota = 0) and AudioData is nil
ZeroMsg == Msg(0, "audio", "nil")

\* the media type a worker accepts, and the one it puts on what it emits
Expects(k) == IF k = "decode" THEN "audio/x-opus" ELSE "audio/x-raw"

\* what a producer sends to an Element of implementation k: audio with the
\* media type it expects, or a message of another type
ProducerMsgs(id, k) == {Msg(id, "audio", Expects(k)), Msg(id, "video", "nil")}

\* a media type the worker does not accept
Unexpected(k) == IF k = "decode" THEN "audio/x-raw" ELSE "audio/x-opus"

\* the message is not audio, or is audio tagged with another media type
NonMatching(k, msg) ==
    msg.type # "audio" \/ (msg.media # "nil" /\ msg.media # Expects(k))

\* the same, audio of another media type, audio without AudioData, and audio
\* of the expected media type with every kind of payload
AnyMsgs(id, k) ==
    ProducerMsgs(id, k)
      \cup {Msg(id, "audio", Unexpected(k)), Msg(id, "audio", "nil")}
      \cup {WithData(Msg(id, "audio", Expects(k)), d) : d \in {"empty", "odd", "bad"}}

Emits(k) == IF k = "encode" THEN "audio/x-opus" ELSE "audio/x-raw"

\* the workers of an Element that Start adds to e.wg
Counted_AllWorkers(k, w) == TRUE

Counted(k, w) == w = "w1" \/ k = "sink"

\* the last dump a worker attempted: the Element, the message, what became of
\* the dump, and whether the worker went on with the message
NoDump == [e |-> "none", id |-> 0, out |-> "nil", fwd |-> FALSE]

NoObs ==
    [cLog |-> <<>>, accepted |-> {}, startLog |-> <<>>, startErr |-> FALSE,
     failed |-> {}, nonMatching |-> {}, dump |-> NoDump]

PipelineIdle(k, fails, ses) ==
    /\ kind = k
    /\ InChan = [e \in Elems |-> <<>>]
    /\ OutChan = [e \in Elems |-> <<>>]
    /\ inClosed = [e \in Elems |-> 0]
    /\ outClosed = [e \in Elems |-> FALSE]
    /\ ctxDone = FALSE
    /\ cancel = [e \in Elems |-> FALSE]
    /\ ectx = [e \in Elems |-> FALSE]
    /\ wg = [e \in Elems |-> 0]
    /\ wk = [e \in Elems |-> [w \in Workers |-> "none"]]
    /\ hold = [e \in Elems |-> [w \in Workers |-> NoMsg]]
    /\ lpc = [a \in Linked |-> "range"]
    /\ lhold = [a \in Linked |-> NoMsg]
    /\ session = [e \in Elems |-> ses /\ k[e] = "gemini"]
    /\ stopPc = [e \in Elems |-> "idle"]
    /\ nstop = [e \in Elems |-> 0]
    /\ nrel = [e \in Elems |-> 0]
    /\ owned = [e \in Elems |-> TRUE]
    /\ ppc = [op |-> "idle", i |-> 0]
    /\ startFails = fails
    /\ crashed = FALSE
    /\ nsent = 0
    /\ obs = NoObs

(***************************************************************************)
(* Part 3: state of a Dumper after NewDumper.                              *)
(***************************************************************************)
NoDumperCall ==
    [op |-> "New", err |-> FALSE, io |-> "ok", closes0 |-> 0,
     persisted0 |-> 0, nfclose0 |-> 0]

NewDumper ==
    /\ dwriter = TRUE
    /\ wclosed = FALSE
    /\ nfclose = 0
    /\ persisted = 0
    /\ ndcalls = 0
    /\ nclose = 0
    /\ dlast = NoDumperCall

(***************************************************************************)
(* Part 4: state of an EventBus after NewEventBus, with the channels in    *)
(* subs already subscribed to every event type.  A subscriber list is a Go *)
(* slice: the backing array arr (its length is the capacity), the length n *)
(* of the slice, and the identity of the array.                            *)
(***************************************************************************)
EventChanCap == 100

EventTypes == {"t1", "t2"}

SubChans == {"c1", "c2", "c3"}

\* the event type and the channel of the scenario that fills the queue
FloodTypes == {"t1"}

FloodChans == {"c1"}

NilChan == "nil"

\* the nil slice a map lookup yields for a type nobody subscribed to
NoSubscribers == [arr |-> <<>>, n |-> 0, array |-> 0]

\* the elements of a slice
Slice(s) == SubSeq(s.arr, 1, s.n)

\* capacity append() gives the array it allocates when the old one is full
GrowCap(c) == IF c = 0 THEN 1 ELSE 2 * c

RECURSIVE Padded(_, _)
Padded(q, c) == IF Len(q) >= c THEN q ELSE Padded(Append(q, NilChan), c)

\* append(s, ch): in place when the array has room, else into a new array
AppendSlice(s, ch) ==
    IF s.n < Len(s.arr)
    THEN [arr |-> [s.arr EXCEPT ![s.n + 1] = ch], n |-> s.n + 1, array |-> s.array]
    ELSE [arr |-> Padded(Append(Slice(s), ch), GrowCap(Len(s.arr))),
          n |-> s.n + 1, array |-> s.array + 1]

RECURSIVE Subscribed(_, _)
Subscribed(s, chs) ==
    IF chs = <<>> THEN s ELSE Subscribed(AppendSlice(s, Head(chs)), Tail(chs))

Publishers == {"p1"}

IdlePublisher == [pc |-> "idle", evt |-> "none"]

\* observer: per channel the events sent into it, the (event, channel) sends
\* that found the channel full, the (type, channel) pairs ever subscribed
\* and unsubscribed, the event of the latest Publish
NoBusObs == [sent |-> [c \in SubChans |-> <<>>], dropped |-> {}, subd |-> {},
             unsubd |-> {}, pub |-> "none"]

RECURSIVE SetToSeq(_)
SetToSeq(S) ==
    IF S = {} THEN <<>>
    ELSE LET x == CHOOSE y \in S : TRUE IN <<x>> \o SetToSeq(S \ {x})

NewEventBus(subs) ==
    /\ running = FALSE
    /\ bcancel = 0
    /\ bctxDone = FALSE
    /\ bworkers = <<>>
    /\ eventChan = <<>>
    /\ subscribers = [t \in EventTypes |-> Subscribed(NoSubscribers, SetToSeq(subs))]
    /\ subChan = [c \in SubChans |-> <<>>]
    /\ bpub = [p \in Publishers |-> IdlePublisher]
    /\ npub = 0
    /\ nsub = 0
    /\ nunsub = 0
    /\ bobs = [NoBusObs EXCEPT !.subd = EventTypes \X subs]

(***************************************************************************)
(* State machine of one PlayoutBuffer and the goroutines calling it.       *)
(***************************************************************************)
InitPlayout ==
    /\ buffer = NewPlayoutBuffer.buffer
    /\ accumulating = NewPlayoutBuffer.accumulating
    /\ resampler = NewResample
    /\ wpc = [w \in Writers |-> "idle"]
    /\ wdata = [w \in Writers |-> NoData]
    /\ wout = [w \in Writers |-> <<>>]
    /\ nw = 0
    /\ last = [op |-> "New", id |-> 0, len |-> 0, err |-> FALSE,
               buf0 |-> <<>>, acc0 |-> FALSE, buf1 |-> <<>>, acc1 |-> FALSE,
               frame |-> <<>>, prev |-> "New"]
    /\ run = [phase |-> "w", k |-> 0, j |-> 0]
    /\ closed = FALSE

Init ==
    /\ InitPlayout
    /\ PipelineIdle(ChainKind, {}, FALSE)
    /\ NewDumper
    /\ NoResampler
    /\ NoFeed
    /\ NewEventBus({})

\* Write(data) up to the call of pb.resampler.Resample(data): the empty case
\* returns nil; otherwise Resample() starts and sets up the instance's frames.
\* No lock is held here.
WriteCall(w, max) ==
    /\ UNCHANGED <<closed, notPlayoutVars>>
    /\ wpc[w] = "idle"
    /\ \E len \in WriteLens :
         IF WriteIsEmpty(len)
         THEN /\ last' = Call("Write", 0, len, FALSE, buffer, accumulating,
                              buffer, accumulating, <<>>)
              /\ run' = RunAfterWrite(len, FALSE, buffer, accumulating)
              /\ UNCHANGED <<buffer, accumulating, resampler, wpc, wdata, wout, nw>>
         ELSE /\ nw < max
              /\ nw' = nw + 1
              /\ wdata' = [wdata EXCEPT ![w] = [id |-> nw + 1, len |-> len]]
              /\ resampler' = ResampleSetup(nw + 1, len)
              /\ wpc' = [wpc EXCEPT ![w] = "resample"]
              /\ UNCHANGED <<buffer, accumulating, wout, last, run>>

\* Resample() converts and returns; on an error Write returns it and the
\* buffer is not touched.
ResampleReturn(w) ==
    /\ UNCHANGED <<closed, notPlayoutVars>>
    /\ wpc[w] = "resample"
    /\ \E res \in ResampleResults(wdata[w].id, wdata[w].len, resampler) :
         IF res.err
         THEN /\ last' = Call("Write", wdata[w].id, wdata[w].len, TRUE, buffer,
                              accumulating, buffer, accumulating, <<>>)
              /\ run' = RunAfterWrite(wdata[w].len, TRUE, buffer, accumulating)
              /\ wpc' = [wpc EXCEPT ![w] = "idle"]
              /\ wdata' = [wdata EXCEPT ![w] = NoData]
              /\ UNCHANGED <<buffer, accumulating, resampler, wout, nw>>
         ELSE /\ wout' = [wout EXCEPT ![w] = res.data]
              /\ wpc' = [wpc EXCEPT ![w] = "append"]
              /\ UNCHANGED <<buffer, accumulating, resampler, wdata, nw, last, run>>

\* Write(): lock, append the resampled bytes, unlock, return nil.
WriteAppend(w) ==
    /\ UNCHANGED <<closed, notPlayoutVars>>
    /\ wpc[w] = "append"
    /\ buffer' = WriteAppendBody(buffer, wout[w])
    /\ UNCHANGED <<accumulating, resampler, nw>>
    /\ last' = Call("Write", wdata[w].id, wdata[w].len, FALSE, buffer,
                    accumulating, buffer', accumulating', <<>>)
    /\ run' = RunAfterWrite(wdata[w].len, FALSE, buffer, accumulating)
    /\ wpc' = [wpc EXCEPT ![w] = "idle"]
    /\ wdata' = [wdata EXCEPT ![w] = NoData]
    /\ wout' = [wout EXCEPT ![w] = <<>>]

\* ReadFrame(), the whole call under the lock (the 20 ms ticker's goroutine).
ReadFrame ==
    LET r == ReadFrameBody(buffer, accumulating)
    IN  /\ UNCHANGED <<closed, notPlayoutVars>>
        /\ buffer' = r.buffer
        /\ accumulating' = r.accumulating
        /\ last' = Call("ReadFrame", 0, 0, FALSE, buffer, accumulating,
                        buffer', accumulating', r.frame)
        /\ run' = RunAfterRead(buffer, accumulating)
        /\ UNCHANGED <<resampler, wpc, wdata, wout, nw>>

\* Clear(), the whole call under the lock, called by a producer goroutine
\* between its Writes.
Clear(w) ==
    /\ UNCHANGED <<closed, notPlayoutVars>>
    /\ wpc[w] = "idle"
    /\ LET r == ClearBody(buffer, accumulating)
       IN  /\ buffer' = r.buffer
           /\ accumulating' = r.accumulating
    /\ last' = Call("Clear", 0, 0, FALSE, buffer, accumulating,
                    buffer', accumulating', <<>>)
    /\ run' = NoRun
    /\ UNCHANGED <<resampler, wpc, wdata, wout, nw>>

WriterStep(w, max) == WriteCall(w, max) \/ ResampleReturn(w) \/ WriteAppend(w) \/ Clear(w)

\* the program: one producer goroutine and the ticker
Next == ReadFrame \/ \E w \in ProgramWriters : WriterStep(w, MaxWrites)

SpecPlayout == Init /\ [][Next]_vars

\* the buffer called by several producer goroutines at once
NextConc == ReadFrame \/ \E w \in Writers : WriterStep(w, MaxConcWrites)

SpecPlayoutConc == Init /\ [][NextConc]_vars

(***************************************************************************)
(* Properties of the PlayoutBuffer.                                        *)
(***************************************************************************)
\* every byte is a zero of make()
AllZero(b) == \A i \in 1..Len(b) : b[i].src = 0

\* every byte comes out of a Write
AllPayload(b) == \A i \in 1..Len(b) : b[i].src # 0

\* the same bytes with adjacent runs joined, so that a slice cut in two and
\* put together again compares equal to the original
RECURSIVE Canon(_)
Canon(b) ==
    IF Len(b) < 2 THEN b
    ELSE IF b[1].src = b[2].src /\ (b[1].src = 0 \/ b[1].hi = b[2].lo)
         THEN Canon(<<IF b[1].src = 0 THEN Seg(0, 0, SegLen(b[1]) + SegLen(b[2]))
                      ELSE Seg(b[1].src, b[1].lo, b[2].hi)>>
                    \o SubSeq(b, 3, Len(b)))
         ELSE <<b[1]>> \o Canon(Tail(b))

SameBytes(a, b) == Canon(a) = Canon(b)

\* C1: every ReadFrame call returns exactly frameBytes = 1920 bytes, whatever
\* the state (Draining or Accumulating) and the amount buffered.
C1_FrameSize ==
    last.op = "ReadFrame" =>
        /\ BytesLen(last.frame) = BytesPerFrame48kHz
        /\ BytesPerFrame48kHz = 1920

\* a ReadFrame in Draining state with a partial frame buffered
C1_Witness ==
    /\ last.op = "ReadFrame"
    /\ ~last.acc0
    /\ 0 < BytesLen(last.buf0)
    /\ BytesLen(last.buf0) < BytesPerFrame48kHz

\* C2: a ReadFrame in Accumulating state (entered by Clear) with fewer than
\* 5 x frameBytes = 9600 bytes buffered returns an all-zero frame and leaves
\* the buffered bytes and the Accumulating state unchanged, whatever Writes
\* came in between.
C2_SilentWhileAccumulating ==
    (last.op = "ReadFrame" /\ last.acc0 /\ BytesLen(last.buf0) < 9600) =>
        /\ AllZero(last.frame)
        /\ BytesLen(last.frame) = BytesPerFrame48kHz
        /\ last.buf1 = last.buf0
        /\ last.acc1
        /\ buffer = last.buf0
        /\ accumulating

\* such a ReadFrame after two Writes, one of them longer than a frame
C2_Witness ==
    /\ last.op = "ReadFrame"
    /\ last.acc0
    /\ Len(last.buf0) >= 2
    /\ \E i \in 1..Len(last.buf0) : SegLen(last.buf0[i]) > BytesPerFrame48kHz
    /\ BytesLen(last.buf0) < 9600

\* C3: the ReadFrame that finds the buffer Accumulating with at least
\* 5 x frameBytes switches to Draining and on that same call returns the first
\* frameBytes buffered bytes and removes them.
C3_NoTickSkipped ==
    (last.op = "ReadFrame" /\ last.acc0 /\ BytesLen(last.buf0) >= 9600) =>
        /\ ~last.acc1
        /\ ~accumulating
        /\ BytesLen(last.frame) = BytesPerFrame48kHz
        /\ AllPayload(last.frame)
        /\ SameBytes(last.frame \o last.buf1, last.buf0)

\* the threshold crossed by several Writes, then the ReadFrame
C3_Witness ==
    /\ last.op = "ReadFrame"
    /\ last.acc0
    /\ BytesLen(last.buf0) >= 9600
    /\ Len(last.buf0) >= 2

\* C4: in Draining state with at least frameBytes buffered, ReadFrame returns
\* the first frameBytes bytes and removes exactly those; the rest keeps its
\* order.
C4_FifoFullFrame ==
    (last.op = "ReadFrame" /\ ~last.acc0 /\ BytesLen(last.buf0) >= BytesPerFrame48kHz) =>
        /\ BytesLen(last.frame) = BytesPerFrame48kHz
        /\ AllPayload(last.frame)
        /\ SameBytes(last.frame \o last.buf1, last.buf0)
        /\ Available = BytesLen(last.buf0) - BytesPerFrame48kHz
        /\ ~last.acc1

\* a frame read in Draining state that spans two Writes and leaves bytes behind
C4_Witness ==
    /\ last.op = "ReadFrame"
    /\ ~last.acc0
    /\ Len(last.frame) >= 2
    /\ AllPayload(last.frame)
    /\ BytesLen(last.buf1) > 0

\* C5: in Draining state with 0 < n < frameBytes bytes buffered, ReadFrame
\* returns those n bytes followed by frameBytes - n zeros and empties the
\* buffer.
C5_PartialFlushed ==
    (/\ last.op = "ReadFrame"
     /\ ~last.acc0
     /\ 0 < BytesLen(last.buf0)
     /\ BytesLen(last.buf0) < BytesPerFrame48kHz) =>
        /\ SameBytes(last.frame,
                     last.buf0 \o Zeros(BytesPerFrame48kHz - BytesLen(last.buf0)))
        /\ BytesLen(last.frame) = BytesPerFrame48kHz
        /\ last.buf1 = <<>>
        /\ Available = 0

\* a remainder of two Writes flushed by one ReadFrame
C5_Witness ==
    /\ last.op = "ReadFrame"
    /\ ~last.acc0
    /\ Len(last.buf0) = 2
    /\ BytesLen(last.buf0) < BytesPerFrame48kHz

\* C6: from an empty Draining buffer, k whole 20 ms input frames written and
\* then k+1 ReadFrame calls: the first k return payload frames, the last an
\* all-zero frame, and nothing is buffered after it (k = 0: a fresh buffer).
C6_KFramesThenSilence ==
    run.phase = "r" =>
        /\ last.op = "ReadFrame"
        /\ BytesLen(last.frame) = BytesPerFrame48kHz
        /\ run.j <= run.k => (AllPayload(last.frame) /\
                              Available = (run.k - run.j) * BytesPerFrame48kHz)
        /\ run.j = run.k + 1 => (AllZero(last.frame) /\ Available = 0)

\* three frames written, the fourth read done
C6_Witness == run.phase = "r" /\ run.k = 3 /\ run.j = 4

\* C7: Clear in any state leaves nothing buffered and the buffer Accumulating,
\* and a ReadFrame that follows it directly returns silence.
C7_ClearResets ==
    /\ last.op = "Clear" => (Available = 0 /\ accumulating /\ last.buf1 = <<>> /\ last.acc1)
    /\ (last.op = "ReadFrame" /\ last.prev = "Clear") =>
          (AllZero(last.frame) /\ BytesLen(last.frame) = BytesPerFrame48kHz)

\* Clear called in Draining state with more than a frame buffered
C7_Witness ==
    /\ last.op = "Clear"
    /\ ~last.acc0
    /\ BytesLen(last.buf0) > BytesPerFrame48kHz

\* C8: Write of an empty slice returns nil and changes neither the buffered
\* bytes nor the state.
C8_EmptyWriteNoOp ==
    (last.op = "Write" /\ last.len = 0) =>
        /\ ~last.err
        /\ last.buf1 = last.buf0
        /\ last.acc1 = last.acc0
        /\ buffer = last.buf0
        /\ accumulating = last.acc0

\* an empty Write on an Accumulating buffer that holds bytes
C8_Witness ==
    /\ last.op = "Write"
    /\ last.len = 0
    /\ last.acc0
    /\ BytesLen(last.buf0) > 0

\* C9: a successful Write of L bytes (L > 0 a whole number of 2-byte samples)
\* appends exactly 2L bytes, the resampled bytes of that Write, and leaves the
\* state unchanged; a 960-byte input frame adds one 1920-byte output frame.
C9_WriteAppendsDouble ==
    (last.op = "Write" /\ ~last.err /\ last.len > 0 /\ last.len % 2 = 0) =>
        /\ BytesLen(last.buf1) = BytesLen(last.buf0) + 2 * last.len
        /\ SameBytes(last.buf1, last.buf0 \o <<Seg(last.id, 0, 2 * last.len)>>)
        /\ last.acc1 = last.acc0
        /\ last.len = 960 => Available = BytesLen(last.buf0) + 1920

\* one full input frame written to a buffer that already holds bytes
C9_Witness ==
    /\ last.op = "Write"
    /\ ~last.err
    /\ last.len = BytesPerFrame24kHz
    /\ BytesLen(last.buf0) > 0

\* C10: concurrent Write calls are serialized: never two of them inside the
\* buffer's one resampler at the same time, and what a Write appends is one
\* block at the end of the buffer.
C10_WritesSerialized ==
    /\ Cardinality({w \in Writers : wpc[w] = "resample"}) <= 1
    /\ (last.op = "Write" /\ ~last.err) =>
          Take(last.buf1, BytesLen(last.buf0)) = last.buf0

(***************************************************************************)
(* Part 2: the Elements.  Start, the worker goroutines and Stop.           *)
(***************************************************************************)
chanVars == <<InChan, OutChan, inClosed, outClosed>>

lifeVars == <<cancel, ectx, wg, session, stopPc, nstop, nrel, owned>>

workVars == <<wk, hold>>

linkVars == <<lpc, lhold>>

inputVars == <<kind, startFails>>

\* ctx.Done() of the context an Element derived in Start is ready
Done(e) == ctxDone \/ ectx[e]

\* the goroutines Start spawns, by Element implementation
Spawned(k, ses) ==
    IF k = "sink" THEN [w1 |-> "spawn", w2 |-> "spawn"]
    ELSE IF k = "gemini" /\ ses THEN [w1 |-> "select", w2 |-> "select"]
    ELSE [w1 |-> "select", w2 |-> "none"]

WgAdd(k) == Cardinality({w \in Workers : Counted(k, w) /\ Spawned(k, TRUE)[w] # "none"})

\* e.Start(ctx) of an Element whose Start succeeds: derive the context, keep
\* its cancel function, spawn the workers, return nil
StartBody(e) ==
    /\ cancel' = [cancel EXCEPT ![e] = TRUE]
    /\ ectx' = [ectx EXCEPT ![e] = FALSE]
    /\ wg' = [wg EXCEPT ![e] = wg[e] + WgAdd(kind[e])]
    /\ wk' = [wk EXCEPT ![e] = Spawned(kind[e], session[e])]
    /\ UNCHANGED <<hold, session, stopPc, nstop, nrel, owned>>

\* WebRTCSinkElement.run: the goroutine started by Start spawns both workers
SinkRun(e) ==
    /\ ~crashed
    /\ wk[e]["w1"] = "spawn"
    /\ wk' = [wk EXCEPT ![e] = [w \in Workers |-> "select"]]
    /\ UNCHANGED <<notPipelineVars, chanVars, lifeVars, hold, linkVars, inputVars,
                   ctxDone, ppc, crashed, nsent, obs>>

\* a worker takes the ctx.Done() case of its select and returns
\* (deferred e.wg.Done() for the workers that Start counted)
WorkerExit(e, w) ==
    /\ ~crashed
    /\ Done(e)
    /\ \/ wk[e][w] = "select"
       \/ wk[e][w] = "send" /\ ~(kind[e] = "gemini" /\ w = "w2")
    /\ wk' = [wk EXCEPT ![e][w] = "exited"]
    /\ hold' = [hold EXCEPT ![e][w] = NoMsg]
    /\ wg' = [wg EXCEPT ![e] = IF Counted(kind[e], w) THEN wg[e] - 1 ELSE wg[e]]
    /\ UNCHANGED <<notPipelineVars, chanVars, cancel, ectx, session, stopPc, nstop,
                   nrel, owned, linkVars, inputVars, ctxDone, ppc, crashed,
                   nsent, obs>>

\* what the receive case of the input worker's select yields
Received(e) == IF InChan[e] # <<>> THEN Head(InChan[e]) ELSE ZeroMsg

\* variant: the media type is not looked at
Skipped_TypeOnly(k, msg) == msg.type # "audio" \/ msg.data = "empty"

\* the filters at the top of every input worker
Skipped(k, msg) ==
    msg.type # "audio" \/ msg.media # Expects(k) \/ msg.data = "empty"

\* utils.ByteSliceToInt16Slice(msg.AudioData.Data) panics: the encode worker
\* hands it every raw payload, and it panics on an odd length
Malformed(k, msg) == k = "encode" /\ msg.data = "odd"

\* the outcomes of Decode, Encode or Resample on the payload: an error for
\* a payload it cannot process, an error or output for any other
Outcomes(msg) == IF msg.data = "bad" THEN {"err"} ELSE {"err", "ok"}

\* msg.AudioData.MediaType of a message without AudioData
NilDeref(msg) == msg.type = "audio" /\ msg.media = "nil"

Processed(k, msg) == Msg(msg.id, "audio", Emits(k))

\* variant: the worker returns after a failed message
AfterFailure_Exits == "exited"

\* where the worker goes after logging the error: continue, back to the select
AfterFailure == "select"

\* what the dump in a worker comes to: e.dumper is nil (dumping is off, or
\* NewDumper failed in the constructor), Write returns the error of a closed
\* dumper or of the file, or the bytes are written; a worker of an Element
\* without a dumper does not dump
DumpOutcomes(k) ==
    IF k \in {"decode", "sink"} THEN {"nil", "closed", "failed", "written"}
    ELSE {"none"}

\* variant: a failed dump drops the message
AfterDump_DropsOnError(dump) ==
    IF dump \in {"closed", "failed"} THEN "select" ELSE "forward"

\* what the worker does after the dump: the error is logged and the worker
\* goes on to build outMsg, or to e.playout.Write
AfterDump(dump) == "forward"

\* the observer's record of the dump
Dumped(o, e, msg, dump) ==
    IF dump = "none" THEN o
    ELSE [o EXCEPT !.dump = [e |-> e, id |-> msg.id, out |-> dump,
                             fwd |-> AfterDump(dump) = "forward"]]

\* the input worker takes the receive case: filter, process, dump, and for
\* the Elements that emit, go on to the send select; a failed decode, encode,
\* resample or session.Send drops the message; the sink writes what it takes
\* to the playout buffer
WorkerRecv(e) ==
    /\ ~crashed
    /\ wk[e]["w1"] = "select"
    /\ InChan[e] # <<>> \/ inClosed[e] > 0
    /\ InChan' = [InChan EXCEPT ![e] = IF InChan[e] # <<>> THEN Tail(InChan[e]) ELSE <<>>]
    /\ LET msg == Received(e)
       IN  IF NilDeref(msg)
           THEN /\ crashed' = TRUE
                /\ wk' = [wk EXCEPT ![e]["w1"] = "panicked"]
                /\ UNCHANGED <<hold, obs>>
           ELSE IF Skipped(kind[e], msg) \/ kind[e] = "gemini"
           THEN UNCHANGED <<crashed, wk, hold, obs>>
           ELSE IF kind[e] = "sink"
           THEN \E dump \in DumpOutcomes(kind[e]) :
                  /\ obs' = Dumped(obs, e, msg, dump)
                  /\ UNCHANGED <<crashed, wk, hold>>
           ELSE IF Malformed(kind[e], msg)
           THEN /\ crashed' = TRUE
                /\ wk' = [wk EXCEPT ![e]["w1"] = "panicked"]
                /\ UNCHANGED <<hold, obs>>
           ELSE \E res \in Outcomes(msg) :
                  IF res = "err"
                  THEN /\ wk' = [wk EXCEPT ![e]["w1"] = AfterFailure]
                       /\ obs' = [obs EXCEPT !.failed = @ \cup {<<e, msg.id>>}]
                       /\ UNCHANGED <<crashed, hold>>
                  ELSE \E dump \in DumpOutcomes(kind[e]) :
                         /\ obs' = Dumped(obs, e, msg, dump)
                         /\ IF AfterDump(dump) = "forward"
                            THEN /\ wk' = [wk EXCEPT ![e]["w1"] = "send"]
                                 /\ hold' = [hold EXCEPT ![e]["w1"] =
                                                Processed(kind[e], msg)]
                            ELSE UNCHANGED <<wk, hold>>
                         /\ UNCHANGED crashed
    /\ UNCHANGED <<notPipelineVars, OutChan, inClosed, outClosed, lifeVars, linkVars,
                   inputVars, ctxDone, ppc, nsent>>

\* a worker's send on e.OutChan goes through; a send on a closed channel panics
WorkerSend(e, w) ==
    /\ ~crashed
    /\ wk[e][w] = "send"
    /\ IF outClosed[e]
       THEN /\ crashed' = TRUE
            /\ wk' = [wk EXCEPT ![e][w] = "panicked"]
            /\ UNCHANGED <<OutChan, hold>>
       ELSE /\ Len(OutChan[e]) < QueueCap
            /\ OutChan' = [OutChan EXCEPT ![e] = Append(OutChan[e], hold[e][w])]
            /\ wk' = [wk EXCEPT ![e][w] = "select"]
            /\ hold' = [hold EXCEPT ![e][w] = NoMsg]
            /\ UNCHANGED crashed
    /\ UNCHANGED <<notPipelineVars, InChan, inClosed, outClosed, lifeVars, linkVars,
                   inputVars, ctxDone, ppc, nsent, obs>>

\* WebRTCSinkElement's ticker worker takes the ticker case
SinkTick(e) ==
    /\ ~crashed
    /\ kind[e] = "sink"
    /\ wk[e]["w2"] = "select"
    /\ UNCHANGED vars

\* GeminiElement's receive worker takes the default case and calls
\* e.session.Receive(): the read of e.session races with Stop's e.session = nil
GeminiCallReceive(e) ==
    /\ ~crashed
    /\ kind[e] = "gemini"
    /\ wk[e]["w2"] = "select"
    /\ ~Done(e)
    /\ wk' = [wk EXCEPT ![e]["w2"] = "recv"]
    /\ UNCHANGED <<notPipelineVars, chanVars, lifeVars, hold, linkVars, inputVars,
                   ctxDone, ppc, crashed, nsent, obs>>

\* e.session.Receive() returns: a method call on the nil session panics, an
\* error ends the worker, a message without audio loops, one with audio is sent
GeminiReceiveReturn(e) ==
    /\ ~crashed
    /\ wk[e]["w2"] = "recv"
    /\ IF ~session[e]
       THEN /\ crashed' = TRUE
            /\ wk' = [wk EXCEPT ![e]["w2"] = "panicked"]
            /\ UNCHANGED hold
       ELSE /\ UNCHANGED crashed
            /\ \/ wk' = [wk EXCEPT ![e]["w2"] = "exited"] /\ UNCHANGED hold
               \/ wk' = [wk EXCEPT ![e]["w2"] = "select"] /\ UNCHANGED hold
               \/ /\ wk' = [wk EXCEPT ![e]["w2"] = "send"]
                  /\ hold' = [hold EXCEPT ![e]["w2"] = Msg(0, "audio", "audio/x-raw")]
    /\ UNCHANGED <<notPipelineVars, chanVars, lifeVars, linkVars, inputVars,
                   ctxDone, ppc, nsent, obs>>

\* the nil check in front of every resource release in Stop
MustRelease_Always(own) == TRUE

MustRelease(own) == own

\* Stop() up to e.wg.Wait(): cancel the derived context when there is one
StopCallBody(e) ==
    /\ stopPc[e] = "idle"
    /\ IF cancel[e]
       THEN /\ ectx' = [ectx EXCEPT ![e] = TRUE]
            /\ stopPc' = [stopPc EXCEPT ![e] = "wait"]
       ELSE /\ stopPc' = [stopPc EXCEPT ![e] = "release"]
            /\ UNCHANGED ectx
    /\ UNCHANGED <<cancel, wg, session, nstop, nrel, owned>>

\* e.wg.Wait() returns; e.cancel = nil
StopWaitBody(e) ==
    /\ stopPc[e] = "wait"
    /\ wg[e] = 0
    /\ cancel' = [cancel EXCEPT ![e] = FALSE]
    /\ stopPc' = [stopPc EXCEPT ![e] = "release"]
    /\ UNCHANGED <<ectx, wg, session, nstop, nrel, owned>>

\* the rest of Stop(): release what is still owned, drop the session, return nil
StopReleaseBody(e) ==
    /\ stopPc[e] = "release"
    /\ nrel' = [nrel EXCEPT ![e] = IF MustRelease(owned[e]) THEN nrel[e] + 1 ELSE nrel[e]]
    /\ owned' = [owned EXCEPT ![e] = FALSE]
    /\ session' = [session EXCEPT ![e] = FALSE]
    /\ nstop' = [nstop EXCEPT ![e] = nstop[e] + 1]
    /\ stopPc' = [stopPc EXCEPT ![e] = "idle"]
    /\ UNCHANGED <<cancel, ectx, wg>>

\* the three stretches of e.Stop(), for any caller
StopCall(e) ==
    /\ ~crashed
    /\ StopCallBody(e)
    /\ UNCHANGED <<notPipelineVars, chanVars, workVars, linkVars, inputVars,
                   ctxDone, crashed, nsent, obs>>

StopWait(e) ==
    /\ ~crashed
    /\ StopWaitBody(e)
    /\ UNCHANGED <<notPipelineVars, chanVars, workVars, linkVars, inputVars,
                   ctxDone, crashed, nsent, obs>>

StopRelease(e) ==
    /\ ~crashed
    /\ StopReleaseBody(e)
    /\ UNCHANGED <<notPipelineVars, chanVars, workVars, linkVars, inputVars,
                   ctxDone, crashed, nsent, obs>>

\* the owner of the context cancels it
CancelCtx ==
    /\ ~crashed
    /\ ~ctxDone
    /\ ctxDone' = TRUE
    /\ UNCHANGED <<notPipelineVars, chanVars, lifeVars, workVars, linkVars,
                   inputVars, ppc, crashed, nsent, obs>>

\* a producer goroutine executes In() <- msg on the first Element, as
\* readRemoteAudio does: a plain channel send
ProducerSend ==
    /\ ~crashed
    /\ nsent < MaxMsgs
    /\ Len(InChan["A"]) < QueueCap
    /\ \E msg \in ProducerMsgs(nsent + 1, kind["A"]) :
         /\ InChan' = [InChan EXCEPT !["A"] = Append(InChan["A"], msg)]
         /\ obs' = [obs EXCEPT !.accepted =
                      IF nstop["A"] > 0 THEN obs.accepted \cup {msg.id}
                      ELSE obs.accepted]
    /\ nsent' = nsent + 1
    /\ UNCHANGED <<notPipelineVars, OutChan, inClosed, outClosed, lifeVars, workVars,
                   linkVars, inputVars, ctxDone, ppc, crashed>>

(***************************************************************************)
(* Part 2: Pipeline.Link.                                                  *)
(***************************************************************************)
\* which message of a.Out() the range loop takes next
Forwarded_Newest(q) == q[Len(q)]

Forwarded(q) == Head(q)

Rest(q, msg) == IF msg = Head(q) THEN Tail(q) ELSE SubSeq(q, 1, Len(q) - 1)

\* for msg := range a.Out(): a message is received
LinkRecv(a) ==
    /\ ~crashed
    /\ lpc[a] = "range"
    /\ OutChan[a] # <<>>
    /\ lhold' = [lhold EXCEPT ![a] = Forwarded(OutChan[a])]
    /\ OutChan' = [OutChan EXCEPT ![a] = Rest(OutChan[a], Forwarded(OutChan[a]))]
    /\ lpc' = [lpc EXCEPT ![a] = "send"]
    /\ UNCHANGED <<notPipelineVars, InChan, inClosed, outClosed, lifeVars, workVars,
                   inputVars, ctxDone, ppc, crashed, nsent, obs>>

\* b.In() <- msg goes through when b.In() has room
LinkSend(a) ==
    /\ ~crashed
    /\ lpc[a] = "send"
    /\ inClosed[Succ(a)] = 0
    /\ Len(InChan[Succ(a)]) < QueueCap
    /\ InChan' = [InChan EXCEPT ![Succ(a)] = Append(InChan[Succ(a)], lhold[a])]
    /\ lhold' = [lhold EXCEPT ![a] = NoMsg]
    /\ lpc' = [lpc EXCEPT ![a] = "range"]
    /\ obs' = [obs EXCEPT !.cLog = IF Succ(a) = "C" THEN Append(obs.cLog, lhold[a].id)
                                    ELSE obs.cLog]
    /\ UNCHANGED <<notPipelineVars, OutChan, inClosed, outClosed, lifeVars, workVars,
                   inputVars, ctxDone, ppc, crashed, nsent>>

\* the range loop ends when a.Out() is closed and drained; close(b.In())
LinkClose(a) ==
    /\ ~crashed
    /\ lpc[a] = "range"
    /\ OutChan[a] = <<>>
    /\ outClosed[a]
    /\ inClosed' = [inClosed EXCEPT ![Succ(a)] = inClosed[Succ(a)] + 1]
    /\ lpc' = [lpc EXCEPT ![a] = "done"]
    /\ UNCHANGED <<notPipelineVars, InChan, OutChan, outClosed, lifeVars, workVars,
                   lhold, inputVars, ctxDone, ppc, crashed, nsent, obs>>

(***************************************************************************)
(* One Element of any implementation, started at most once and stopped     *)
(* any number of times by one goroutine, with a producer on its In().      *)
(***************************************************************************)
InitLone ==
    /\ InitPlayout
    /\ \E k \in Kinds, ses \in BOOLEAN : PipelineIdle(LoneKind(k), {}, ses)
    /\ NewDumper
    /\ NoResampler
    /\ NoFeed
    /\ NewEventBus({})

LoneStart ==
    /\ ~crashed
    /\ ppc.op = "idle"
    /\ nstop["A"] = 0
    /\ stopPc["A"] = "idle"
    /\ StartBody("A")
    /\ ppc' = [ppc EXCEPT !.op = "running"]
    /\ UNCHANGED <<notPipelineVars, chanVars, linkVars, inputVars, ctxDone,
                   crashed, nsent, obs>>

LoneStopCall == nstop["A"] < MaxStops /\ StopCall("A") /\ UNCHANGED ppc

LoneStopWait == StopWait("A") /\ UNCHANGED ppc

LoneStopRelease == StopRelease("A") /\ UNCHANGED ppc

LoneWorker ==
    \/ SinkRun("A")
    \/ \E w \in Workers : WorkerExit("A", w) \/ WorkerSend("A", w)
    \/ WorkerRecv("A")
    \/ SinkTick("A")
    \/ GeminiCallReceive("A")
    \/ GeminiReceiveReturn("A")

NextLone ==
    \/ LoneStart
    \/ LoneStopCall
    \/ LoneStopWait
    \/ LoneStopRelease
    \/ LoneWorker
    \/ CancelCtx
    \/ ProducerSend
    \/ LinkRecv("A")
    \/ LinkSend("A")

SpecLone == InitLone /\ [][NextLone]_vars

\* C11: in every state where a Stop() of an Element has got past e.wg.Wait()
\* (it is releasing the resources, or has returned), every worker goroutine
\* that the Element's Start spawned has exited.
C11_StopWaitsForWorkers ==
    \A e \in Elems :
        (stopPc[e] = "release" \/ nstop[e] > 0)
            => \A w \in Workers : wk[e][w] \in {"none", "exited"}

InitChain ==
    /\ InitPlayout
    /\ \E fails \in {{}, {"B"}} : PipelineIdle(ChainKind, fails, FALSE)
    /\ NewDumper
    /\ NoResampler
    /\ NoFeed
    /\ NewEventBus({})

\* Pipeline.Start(ctx) is called
PipelineStart ==
    /\ ~crashed
    /\ ppc.op = "idle"
    /\ ppc' = [op |-> "starting", i |-> 1]
    /\ UNCHANGED <<notPipelineVars, chanVars, lifeVars, workVars, linkVars,
                   inputVars, ctxDone, crashed, nsent, obs>>

\* one turn of the loop of Pipeline.Start: e.Start(ctx), and return its error
PipelineStartElem ==
    /\ ~crashed
    /\ ppc.op = "starting"
    /\ LET e == Registration[ppc.i]
       IN  IF e \in startFails
           THEN /\ ppc' = [ppc EXCEPT !.op = "failed"]
                /\ obs' = [obs EXCEPT !.startErr = TRUE]
                /\ UNCHANGED <<lifeVars, workVars>>
           ELSE /\ StartBody(e)
                /\ obs' = [obs EXCEPT !.startLog = Append(obs.startLog, e)]
                /\ ppc' = IF ppc.i = Len(Registration)
                          THEN [op |-> "running", i |-> 0]
                          ELSE [ppc EXCEPT !.i = ppc.i + 1]
    /\ UNCHANGED <<notPipelineVars, chanVars, linkVars, inputVars, ctxDone,
                   crashed, nsent>>

\* variant: the loop starts at the first Element
PipelineStop_FromFirst ==
    /\ ~crashed
    /\ ppc.op = "running"
    /\ ppc' = [op |-> "stopping", i |-> 1]
    /\ UNCHANGED <<notPipelineVars, chanVars, lifeVars, workVars, linkVars,
                   inputVars, ctxDone, crashed, nsent, obs>>

\* Pipeline.Stop() is called: the loop starts at the last Element
PipelineStop ==
    /\ ~crashed
    /\ ppc.op = "running"
    /\ ppc' = [op |-> "stopping", i |-> Len(Registration)]
    /\ UNCHANGED <<notPipelineVars, chanVars, lifeVars, workVars, linkVars,
                   inputVars, ctxDone, crashed, nsent, obs>>

PipelineStopCall ==
    /\ ppc.op = "stopping"
    /\ StopCall(Registration[ppc.i])
    /\ UNCHANGED ppc

PipelineStopWait ==
    /\ ppc.op = "stopping"
    /\ StopWait(Registration[ppc.i])
    /\ UNCHANGED ppc

PipelineStopRelease ==
    /\ ppc.op = "stopping"
    /\ StopRelease(Registration[ppc.i])
    /\ ppc' = IF ppc.i = 1 THEN [op |-> "stopped", i |-> 0]
              ELSE [ppc EXCEPT !.i = ppc.i - 1]

Running(e) == \E w \in Workers : wk[e][w] \notin {"none", "exited"}

\* a.Out() is closed: the upstream has terminated
CloseOut(a) ==
    /\ ~crashed
    /\ ~Running(a)
    /\ ~outClosed[a]
    /\ outClosed' = [outClosed EXCEPT ![a] = TRUE]
    /\ UNCHANGED <<notPipelineVars, InChan, OutChan, inClosed, lifeVars, workVars,
                   linkVars, inputVars, ctxDone, ppc, crashed, nsent, obs>>

\* the reader of the last Element's Out() receives a message
ConsumerRecv(e) ==
    /\ ~crashed
    /\ OutChan[e] # <<>>
    /\ OutChan' = [OutChan EXCEPT ![e] = Tail(OutChan[e])]
    /\ UNCHANGED <<notPipelineVars, InChan, inClosed, outClosed, lifeVars, workVars,
                   linkVars, inputVars, ctxDone, ppc, crashed, nsent, obs>>

WorkerStep(e, w) ==
    \/ WorkerExit(e, w)
    \/ w = "w1" /\ WorkerRecv(e)
    \/ WorkerSend(e, w)

LinkStep(a) == LinkRecv(a) \/ LinkSend(a) \/ LinkClose(a)

PipelineCaller ==
    \/ PipelineStart
    \/ PipelineStartElem
    \/ PipelineStop
    \/ PipelineStopCall
    \/ PipelineStopWait
    \/ PipelineStopRelease

NextChain ==
    \/ PipelineCaller
    \/ \E e \in Elems, w \in Workers : WorkerStep(e, w)
    \/ \E a \in Linked : LinkStep(a)
    \/ CancelCtx
    \/ CloseOut("A")
    \/ ProducerSend
    \/ ConsumerRecv("C")

SpecChain == InitChain /\ [][NextChain]_vars

\* the goroutines of the program are scheduled fairly; nothing is required
\* of the owner, the producer or the consumer
FairChain ==
    /\ \A e \in Elems, w \in Workers : WF_vars(WorkerStep(e, w))
    /\ \A a \in Linked : WF_vars(LinkStep(a))
    /\ WF_vars(PipelineStartElem)
    /\ WF_vars(PipelineStopCall \/ PipelineStopWait \/ PipelineStopRelease)

SpecChainFair == SpecChain /\ FairChain

(***************************************************************************)
(* Properties of the Elements and the Pipeline.                            *)
(***************************************************************************)
AllExited ==
    /\ \A e \in Elems, w \in Workers : wk[e][w] \in {"none", "exited"}
    /\ \A a \in Linked : lpc[a] = "done"

\* C13: once the context given to Pipeline.Start is cancelled, every worker
\* and every Link goroutine eventually exits (a process that has panicked
\* has no goroutine left either).
C13_CancelStopsAll == ctxDone ~> (AllExited \/ crashed)

\* C14: no message is accepted into In() of an Element whose Stop() has
\* returned: the producer's send is refused.
C14_SendAfterStopRefused == obs.accepted = {}

Increasing(log) == \A i, j \in 1..Len(log) : i < j => log[i] < log[j]

\* C15: the messages that reach C's inbound queue arrive in the order in
\* which the messages they were made from were sent into A's inbound queue
\* (the producer numbers its messages 1, 2, ...), none of them twice.
C15_ChainKeepsOrder == Increasing(obs.cLog)

C15_Witness == Len(obs.cLog) = MaxMsgs

\* C16: no inbound queue is closed twice, and once A.Out() is closed, B.In()
\* and then C.In() are eventually closed.
C16_EndOfStreamPropagates ==
    /\ [](\A e \in Elems : inClosed[e] <= 1)
    /\ outClosed["A"] ~> (inClosed["B"] = 1 /\ inClosed["C"] = 1)

\* C17: Pipeline.Start starts the Elements in registration order, and when
\* it has returned an Element's error, no Element registered before that
\* one is running.
C17_NoHalfStartedPipeline ==
    /\ obs.startLog = SubSeq(Registration, 1, Len(obs.startLog))
    /\ ppc.op = "failed" => \A i \in 1..(ppc.i - 1) : ~Running(Registration[i])

(***************************************************************************)
(* Part 1, continued: a PlayoutBuffer that is closed by its one producer   *)
(* goroutine between two of its calls.                                     *)
(***************************************************************************)
\* Close(), the whole call under the lock: Free the resampler, drop it and
\* the buffer
CloseBody(buf, acc) == [buffer |-> <<>>, accumulating |-> acc, closed |-> TRUE]

PlayoutClose(w) ==
    /\ wpc[w] = "idle"
    /\ ~closed
    /\ LET r == CloseBody(buffer, accumulating)
       IN  /\ buffer' = r.buffer
           /\ accumulating' = r.accumulating
           /\ closed' = r.closed
    /\ last' = Call("Close", 0, 0, FALSE, buffer, accumulating,
                    buffer', accumulating', <<>>)
    /\ run' = NoRun
    /\ UNCHANGED <<resampler, wpc, wdata, wout, nw, notPlayoutVars>>

\* Write(data) on a closed buffer: the empty case returns nil; otherwise
\* pb.resampler.Resample(data) is a method call on the nil *Resample, whose
\* first statement reads r.inFrame: the goroutine panics
WriteClosed(w) ==
    /\ wpc[w] = "idle"
    /\ closed
    /\ \E len \in WriteLens :
         IF WriteIsEmpty(len)
         THEN /\ last' = Call("Write", 0, len, FALSE, buffer, accumulating,
                              buffer, accumulating, <<>>)
              /\ UNCHANGED wpc
         ELSE /\ wpc' = [wpc EXCEPT ![w] = "panicked"]
              /\ UNCHANGED last
    /\ run' = NoRun
    /\ UNCHANGED <<buffer, accumulating, resampler, wdata, wout, nw, closed,
                   notPlayoutVars>>

NoPanic == \A w \in Writers : wpc[w] # "panicked"

NextClose ==
    \/ NoPanic /\ ReadFrame
    \/ \E w \in ProgramWriters :
          \/ ~closed /\ WriterStep(w, MaxCloseWrites)
          \/ PlayoutClose(w)
          \/ WriteClosed(w)

SpecPlayoutClose == Init /\ [][NextClose]_vars

\* C18: a non-empty Write to a closed PlayoutBuffer returns to its caller
\* (with an error): the goroutine calling it does not panic.
C18_WriteAfterCloseReported == NoPanic

(***************************************************************************)
(* Part 3: audio.Dumper.  Write and Close each run under d.mu, so each is  *)
(* one step; the file system can fail any write, header update or close.   *)
(***************************************************************************)
DumperCall(op, err, io) ==
    [op |-> op, err |-> err, io |-> io, closes0 |-> nclose,
     persisted0 |-> persisted, nfclose0 |-> nfclose]

\* the test at the top of Dumper.Write and of WavStreamWriter.Write
WriteRefused(dw, cl) == ~dw \/ cl

\* the test at the top of WavStreamWriter.Close
WavCloseSkips_Never(cl) == FALSE

WavCloseSkips(cl) == cl

\* Dumper.Write(data)
DumperWrite ==
    /\ ndcalls < MaxDumperCalls
    /\ ndcalls' = ndcalls + 1
    /\ IF WriteRefused(dwriter, wclosed)
       THEN /\ dlast' = DumperCall("Write", TRUE, "none")
            /\ UNCHANGED persisted
       ELSE \E io \in {"ok", "writeFail", "headerFail"} :
              /\ dlast' = DumperCall("Write", io # "ok", io)
              /\ IF io = "writeFail"
                 THEN persisted' \in {persisted, persisted + 1}
                 ELSE persisted' = persisted + 1
    /\ UNCHANGED <<dwriter, wclosed, nfclose, nclose, notDumperVars>>

\* Dumper.Close()
DumperClose ==
    /\ ndcalls < MaxDumperCalls
    /\ ndcalls' = ndcalls + 1
    /\ nclose' = nclose + 1
    /\ IF ~dwriter
       THEN /\ dlast' = DumperCall("Close", FALSE, "none")
            /\ UNCHANGED <<dwriter, wclosed, nfclose>>
       ELSE IF WavCloseSkips(wclosed)
       THEN /\ dlast' = DumperCall("Close", FALSE, "none")
            /\ dwriter' = FALSE
            /\ UNCHANGED <<wclosed, nfclose>>
       ELSE /\ wclosed' = TRUE
            /\ nfclose' = nfclose + 1
            /\ \E io \in {"ok", "closeFail"} :
                 /\ dlast' = DumperCall("Close", io # "ok", io)
                 /\ dwriter' = (io # "ok")
    /\ UNCHANGED <<persisted, notDumperVars>>

NextDumper == DumperWrite \/ DumperClose

SpecDumper == Init /\ [][NextDumper]_vars

\* the parts about calls made after a Close()
DumperAfterClose ==
    /\ nfclose <= 1
    /\ (dlast.op = "Write" /\ dlast.closes0 > 0)
         => dlast.err /\ persisted = dlast.persisted0
    /\ (dlast.op = "Close" /\ dlast.closes0 > 0)
         => ~dlast.err /\ nfclose = dlast.nfclose0

\* C19 as stated: every Write after Close() returns an error and persists
\* nothing, every Write before Close() succeeds, and a second Close() returns
\* nil and does not close the file again.
C19_DumperAsStated ==
    /\ DumperAfterClose
    /\ (dlast.op = "Write" /\ dlast.closes0 = 0) => ~dlast.err

\* C19, amended: every Write after Close() returns an error and persists
\* nothing; a Write before Close() succeeds unless the file write or the
\* header update fails, and then it returns that error; a second Close()
\* returns nil and does not close the file again.
C19_DumperContract ==
    /\ DumperAfterClose
    /\ (dlast.op = "Write" /\ dlast.closes0 = 0) => (dlast.err <=> dlast.io # "ok")

C19_Witness ==
    /\ dlast.op = "Close"
    /\ dlast.closes0 > 0
    /\ nfclose = 1
    /\ dwriter = FALSE
    /\ persisted > 0

(***************************************************************************)
(* Part 4: pipeline.EventBus.                                              *)
(***************************************************************************)
Event(t, id) == [type |-> t, id |-> id]

\* todo, array: the slice the goroutine ranges over and its array; k: the turn
NewWorker == [pc |-> "select", done |-> FALSE, evt |-> "none", todo |-> <<>>,
              array |-> 0, k |-> 0]

\* ctx.Done() of the context the i-th dispatch goroutine selects on is ready
BusDone(i) == bctxDone \/ bworkers[i].done

\* one non-blocking send: select { case ch <- evt: default: }
TrySend(chans, ch, evt) ==
    IF Len(chans[ch]) < SubChanCap
    THEN [chans EXCEPT ![ch] = Append(chans[ch], evt)]
    ELSE chans

\* observer: the outcome of that send
Logged(log, chans, ch, evt) ==
    IF Len(chans[ch]) < SubChanCap
    THEN [log EXCEPT !.sent[ch] = Append(@, evt)]
    ELSE [log EXCEPT !.dropped = @ \cup {<<evt, ch>>}]

RECURSIVE DispatchLogged(_, _, _, _)
DispatchLogged(log, chans, subs, evt) ==
    IF subs = <<>> THEN log
    ELSE DispatchLogged(Logged(log, chans, Head(subs), evt),
                        TrySend(chans, Head(subs), evt), Tail(subs), evt)

RECURSIVE Dispatch(_, _, _)
Dispatch(chans, subs, evt) ==
    IF subs = <<>> THEN chans
    ELSE Dispatch(TrySend(chans, Head(subs), evt), Tail(subs), evt)

\* Start(ctx): nothing when running; otherwise spawn the dispatch goroutine
BusStart ==
    /\ IF running
       THEN UNCHANGED <<running, bcancel, bworkers>>
       ELSE /\ Len(bworkers) < MaxBusStarts
            /\ bworkers' = Append(bworkers, NewWorker)
            /\ bcancel' = Len(bworkers) + 1
            /\ running' = TRUE
    /\ UNCHANGED <<bctxDone, eventChan, subscribers, subChan, bpub, npub, nsub, nunsub, bobs, notBusVars>>

\* Stop(): nothing when not running; otherwise cancel and clear running
BusStop ==
    /\ IF ~running
       THEN UNCHANGED <<running, bcancel, bworkers>>
       ELSE /\ bworkers' = IF bcancel = 0 THEN bworkers
                           ELSE [bworkers EXCEPT ![bcancel].done = TRUE]
            /\ bcancel' = 0
            /\ running' = FALSE
    /\ UNCHANGED <<bctxDone, eventChan, subscribers, subChan, bpub, npub, nsub, nunsub, bobs, notBusVars>>

\* the owner of the context given to Start cancels it
BusCancelCtx ==
    /\ ~bctxDone
    /\ bctxDone' = TRUE
    /\ UNCHANGED <<running, bcancel, bworkers, eventChan, subscribers, subChan,
                   bpub, npub, nsub, nunsub, bobs, notBusVars>>

\* dispatch goroutine: case evt := <-b.eventChan, and the snapshot of the
\* subscribers of its type taken under the read lock
BusWorkerTake(i) ==
    /\ bworkers[i].pc = "select"
    /\ eventChan # <<>>
    /\ LET evt == Head(eventChan)
           subs == subscribers[evt.type]
       IN  bworkers' = [bworkers EXCEPT ![i] =
                          IF subs.n = 0
                          THEN [NewWorker EXCEPT !.done = bworkers[i].done]
                          ELSE [pc |-> "deliver", done |-> bworkers[i].done,
                                evt |-> evt, todo |-> Slice(subs),
                                array |-> subs.array, k |-> 1]]
    /\ eventChan' = Tail(eventChan)
    /\ UNCHANGED <<running, bcancel, bctxDone, subscribers, subChan, bpub, npub,
                   nsub, nunsub, bobs, notBusVars>>

\* what turn k of the range reads: the array as it is now when it is still
\* the one b.subscribers holds (Subscribe and Unsubscribe write into it),
\* else what the abandoned array held when the slice was taken
Ranged(w) ==
    LET cur == subscribers[w.evt.type]
    IN  IF w.array = cur.array THEN cur.arr[w.k] ELSE w.todo[w.k]

\* dispatch goroutine: one turn of for _, ch := range subs
BusWorkerDeliver(i) ==
    /\ bworkers[i].pc = "deliver"
    /\ subChan' = TrySend(subChan, Ranged(bworkers[i]), bworkers[i].evt)
    /\ bobs' = Logged(bobs, subChan, Ranged(bworkers[i]), bworkers[i].evt)
    /\ bworkers' = [bworkers EXCEPT ![i] =
                      IF bworkers[i].k = Len(bworkers[i].todo)
                      THEN [NewWorker EXCEPT !.done = bworkers[i].done]
                      ELSE [bworkers[i] EXCEPT !.k = bworkers[i].k + 1]]
    /\ UNCHANGED <<running, bcancel, bctxDone, eventChan, subscribers, bpub, npub,
                   nsub, nunsub, notBusVars>>

\* dispatch goroutine: case <-ctx.Done(): return
BusWorkerExit(i) ==
    /\ bworkers[i].pc = "select"
    /\ BusDone(i)
    /\ bworkers' = [bworkers EXCEPT ![i].pc = "exited"]
    /\ UNCHANGED <<running, bcancel, bctxDone, eventChan, subscribers, subChan,
                   bpub, npub, nsub, nunsub, bobs, notBusVars>>

\* Publish(evt) up to the send: when b.running, go on to b.eventChan <- evt;
\* otherwise dispatch inline under the read lock and return
PublishCall(p, max, numbered, types) ==
    /\ bpub[p].pc = "idle"
    /\ npub < max
    /\ npub' = npub + 1
    /\ \E t \in types :
         LET evt == Event(t, IF numbered THEN npub + 1 ELSE 0)
         IN  IF running
             THEN /\ bpub' = [bpub EXCEPT ![p] = [pc |-> "send", evt |-> evt]]
                  /\ bobs' = [bobs EXCEPT !.pub = evt]
                  /\ UNCHANGED subChan
             ELSE /\ subChan' = Dispatch(subChan, Slice(subscribers[t]), evt)
                  /\ bobs' = DispatchLogged([bobs EXCEPT !.pub = evt], subChan,
                                            Slice(subscribers[t]), evt)
                  /\ UNCHANGED bpub
    /\ UNCHANGED <<running, bcancel, bctxDone, bworkers, eventChan, subscribers,
                   nsub, nunsub, notBusVars>>

\* b.eventChan <- evt goes through when the queue has room; Publish returns
PublishSend(p) ==
    /\ bpub[p].pc = "send"
    /\ Len(eventChan) < EventChanCap
    /\ eventChan' = Append(eventChan, bpub[p].evt)
    /\ bpub' = [bpub EXCEPT ![p] = IdlePublisher]
    /\ UNCHANGED <<running, bcancel, bctxDone, bworkers, subscribers, subChan,
                   npub, nsub, nunsub, bobs, notBusVars>>

BusWorker(i) == BusWorkerTake(i) \/ BusWorkerDeliver(i) \/ BusWorkerExit(i)

\* the channels of a slice
Chans(q) == {q[j] : j \in 1..Len(q)}

\* Subscribe(eventType, ch), by a caller that does not subscribe a channel
\* twice to one type
Subscribe(t, ch) ==
    /\ nsub < MaxSubscribes
    /\ ch \notin Chans(Slice(subscribers[t]))
    /\ nsub' = nsub + 1
    /\ subscribers' = [subscribers EXCEPT ![t] = AppendSlice(@, ch)]
    /\ bobs' = [bobs EXCEPT !.subd = @ \cup {<<t, ch>>}]
    /\ UNCHANGED <<running, bcancel, bctxDone, bworkers, eventChan, subChan, bpub,
                   npub, nunsub, notBusVars>>

\* chans after the loop of Unsubscribe: append(chans[:i], chans[i+1:]...) at
\* the first i holding ch moves the later elements down inside the same
\* array and leaves its last used slot as it was
Removed(s, ch) ==
    IF ch \notin Chans(Slice(s)) THEN s
    ELSE LET i == CHOOSE j \in 1..s.n :
                     /\ s.arr[j] = ch
                     /\ \A l \in 1..(j - 1) : s.arr[l] # ch
         IN  [arr |-> [j \in 1..Len(s.arr) |->
                         IF j >= i /\ j < s.n THEN s.arr[j + 1] ELSE s.arr[j]],
              n |-> s.n - 1, array |-> s.array]

\* Unsubscribe(eventType, ch)
Unsubscribe(t, ch) ==
    /\ nunsub < MaxUnsubscribes
    /\ nunsub' = nunsub + 1
    /\ subscribers' = [subscribers EXCEPT ![t] = Removed(@, ch)]
    /\ bobs' = [bobs EXCEPT !.unsubd = @ \cup {<<t, ch>>}]
    /\ UNCHANGED <<running, bcancel, bctxDone, bworkers, eventChan, subChan, bpub,
                   npub, nsub, notBusVars>>

\* the owner of a subscribed channel receives from it
SubscriberRecv(ch) ==
    /\ subChan[ch] # <<>>
    /\ subChan' = [subChan EXCEPT ![ch] = Tail(@)]
    /\ UNCHANGED <<running, bcancel, bctxDone, bworkers, eventChan, subscribers,
                   bpub, npub, nsub, nunsub, bobs, notBusVars>>

(***************************************************************************)
(* A bus with one subscribed channel that nobody reads, and one publisher  *)
(* that publishes one more event than the internal queue holds.            *)
(***************************************************************************)
InitFlood ==
    /\ InitPlayout
    /\ PipelineIdle(ChainKind, {}, FALSE)
    /\ NewDumper
    /\ NoResampler
    /\ NoFeed
    /\ NewEventBus(FloodChans)

NextFlood ==
    \/ BusStart
    \/ BusStop
    \/ BusCancelCtx
    \/ \E i \in 1..Len(bworkers) : BusWorker(i)
    \/ \E p \in Publishers : PublishCall(p, EventChanCap + 1, FALSE, FloodTypes)
                            \/ PublishSend(p)

SpecFlood == InitFlood /\ [][NextFlood]_vars

\* C20: Publish never waits: a publisher that has reached the send on the
\* internal queue finds room in it (and with the bus not started, Publish is
\* one step of non-blocking sends).
C20_PublishNeverWaits ==
    \A p \in Publishers : bpub[p].pc = "send" => Len(eventChan) < EventChanCap

(***************************************************************************)
(* A bus whose callers subscribe and unsubscribe channels, start it, and   *)
(* publish numbered events of both types before and after that, while the  *)
(* owners of the channels receive from them.                               *)
(***************************************************************************)
InitBus ==
    /\ InitPlayout
    /\ PipelineIdle(ChainKind, {}, FALSE)
    /\ NewDumper
    /\ NoResampler
    /\ NoFeed
    /\ NewEventBus({})

NextBus ==
    \/ BusStart
    \/ \E i \in 1..Len(bworkers) : BusWorker(i)
    \/ \E p \in Publishers : PublishCall(p, MaxPublishes, TRUE, EventTypes)
                            \/ PublishSend(p)
    \/ \E t \in EventTypes, ch \in SubChans : Subscribe(t, ch) \/ Unsubscribe(t, ch)
    \/ \E ch \in SubChans : SubscriberRecv(ch)

SpecBus == InitBus /\ [][NextBus]_vars

\* this step is a Publish that dispatches inline (the bus is not running)
SyncPublish == ~running /\ npub' = npub + 1

\* dispatch goroutine i ends the range over the subscribers of its event
DispatchEnds(i) == bworkers[i].pc = "deliver" /\ bworkers'[i].pc = "select"

\* the channels goroutine i found subscribed and nobody unsubscribed since
Stayed(w) == {ch \in Chans(w.todo) : <<w.evt.type, ch>> \notin bobs'.unsubd}

\* after the step ch was sent evt
WasSent(evt, ch) == \E j \in 1..Len(bobs'.sent[ch]) : bobs'.sent[ch][j] = evt

\* after the step ch was found full by a send of evt
WasDropped(evt, ch) == <<evt, ch>> \in bobs'.dropped

\* C21: a full subscriber channel costs that one delivery only: the send
\* that finds a channel full leaves its contents as they were, and once the
\* dispatch of an event that found some channel full is over, every other
\* subscriber of the type has been sent the event (or was full itself).
C21_OnlyFullChannelDropped ==
    /\ [][\A d \in bobs'.dropped \ bobs.dropped : subChan'[d[2]] = subChan[d[2]]]_vars
    /\ [][\A full \in SubChans :
            (SyncPublish /\ WasDropped(bobs'.pub, full)) =>
               \A ch \in Chans(Slice(subscribers[bobs'.pub.type])) \ {full} :
                 WasSent(bobs'.pub, ch) \/ WasDropped(bobs'.pub, ch)]_vars
    /\ [][\A i \in 1..Len(bworkers), full \in SubChans :
            (DispatchEnds(i) /\ WasDropped(bworkers[i].evt, full)) =>
               \A ch \in Stayed(bworkers[i]) \ {full} :
                 WasSent(bworkers[i].evt, ch) \/ WasDropped(bworkers[i].evt, ch)]_vars

\* C22: Publish reaches every subscriber of the event's type and nobody
\* else: a channel is only sent events of types it was subscribed to; a
\* Publish on a bus that is not running has, when it returns, sent the event
\* to every subscriber of the type with room; and the dispatch goroutine
\* has, when its range ends, sent it to every channel that stayed subscribed.
C22_PublishReachesSubscribers ==
    /\ [](\A ch \in SubChans : \A j \in 1..Len(bobs.sent[ch]) :
            <<bobs.sent[ch][j].type, ch>> \in bobs.subd)
    /\ [][SyncPublish =>
            \A ch \in Chans(Slice(subscribers[bobs'.pub.type])) :
              Len(subChan[ch]) < SubChanCap =>
                subChan'[ch] = Append(subChan[ch], bobs'.pub)]_vars
    /\ [][\A i \in 1..Len(bworkers) :
            DispatchEnds(i) =>
               \A ch \in Stayed(bworkers[i]) :
                 WasSent(bworkers[i].evt, ch) \/ WasDropped(bworkers[i].evt, ch)]_vars

\* C23: at most once per subscriber per Publish: no subscriber channel is
\* sent two copies of one published event, whatever the interleaving of
\* Publish, the dispatch goroutine, Subscribe and Unsubscribe.
C23_AtMostOncePerSubscriber ==
    \A ch \in SubChans :
      \A i, j \in 1..Len(bobs.sent[ch]) :
        i # j => bobs.sent[ch][i].id # bobs.sent[ch][j].id

\* bytes the largest Write of the model appends to the buffer
LargestWrite ==
    OutBytes(OutNumSamples(5 * BytesPerFrame24kHz, InputSampleRate,
                           OutputSampleRate, "mono"), "mono")

\* C30: no queue grows without bound: an Element's queues never hold more
\* than their capacity, the bus queue never more than 100 events, and the
\* playout buffer never holds all of what MaxWrites largest writes append,
\* however large MaxWrites is.
C30_QueuesBounded ==
    /\ \A e \in Elems : Len(InChan[e]) <= QueueCap /\ Len(OutChan[e]) <= QueueCap
    /\ Len(eventChan) <= EventChanCap
    /\ BytesLen(buffer) < MaxWrites * LargestWrite

(***************************************************************************)
(* One started Element of any implementation, fed audio with every kind of *)
(* payload, with the Link behind it taking what it emits.                  *)
(***************************************************************************)
ProducerSendAny ==
    /\ ~crashed
    /\ nsent < MaxMsgs
    /\ Len(InChan["A"]) < QueueCap
    /\ \E msg \in AnyMsgs(nsent + 1, kind["A"]) :
         /\ InChan' = [InChan EXCEPT !["A"] = Append(InChan["A"], msg)]
         /\ obs' = [obs EXCEPT !.nonMatching =
                      IF NonMatching(kind["A"], msg) THEN @ \cup {msg.id} ELSE @]
    /\ nsent' = nsent + 1
    /\ UNCHANGED <<notPipelineVars, OutChan, inClosed, outClosed, lifeVars, workVars,
                   linkVars, inputVars, ctxDone, ppc, crashed>>

NextUnit ==
    \/ LoneStart
    \/ LoneWorker
    \/ CancelCtx
    \/ ProducerSendAny
    \/ LinkRecv("A")
    \/ LinkSend("A")

SpecUnit == InitLone /\ [][NextUnit]_vars

\* this step is the input worker of e taking msg off e.InChan
Takes(e, msg) ==
    /\ InChan[e] # <<>>
    /\ msg = Head(InChan[e])
    /\ InChan'[e] = Tail(InChan[e])

\* C28: a failed Decode, Encode or Resample costs that message only: the
\* step that logs the error emits nothing, leaves the worker at its select
\* and the process alive, so the messages behind it are still processed.
C28_FailureIsLocal ==
    [][\A e \in Elems :
         obs'.failed # obs.failed /\ (\E msg \in {Received(e)} : Takes(e, msg)) =>
           /\ wk'[e]["w1"] = "select"
           /\ ~crashed'
           /\ hold' = hold
           /\ OutChan' = OutChan]_vars

\* a message was emitted after an earlier one had failed in the same Element
C28_Witness ==
    \E f \in obs.failed :
      /\ f[1] = "A"
      /\ \E j \in 1..Len(OutChan["A"]) : OutChan["A"][j].id > f[2]

\* C29: raw PCM of odd length arriving at the encode Element is dropped:
\* the step that takes it emits nothing and leaves the worker at its select
\* and the process alive.
C29_MalformedIsDropped ==
    [][\A e \in Elems : \A msg \in {Received(e)} :
         (/\ Takes(e, msg)
          /\ kind[e] = "encode"
          /\ msg.type = "audio" /\ msg.media = "audio/x-raw" /\ msg.data = "odd") =>
           /\ wk'[e]["w1"] = "select"
           /\ ~crashed'
           /\ hold' = hold]_vars

(***************************************************************************)
(* Part 5: a caller that constructs one Resample and calls it.             *)
(***************************************************************************)
NewResampleCall ==
    /\ rinst.made = "none"
    /\ \E inRate \in Rates, outRate \in Rates, inLayout \in Layouts,
          outLayout \in OutLayouts :
         \E res \in NewResampleResults(inRate, outRate, inLayout, outLayout) :
           rinst' = res.r
    /\ UNCHANGED <<rin, rres, notResamplerVars>>

ResampleCall ==
    /\ rinst.made = "ok"
    /\ rres.kind # "panic"
    /\ \E input \in ResampleInputs :
         /\ rin' = input
         /\ rres' \in ResampleOutcomes(rinst, input.len)
    /\ UNCHANGED <<rinst, notResamplerVars>>

InitResample ==
    /\ InitPlayout
    /\ PipelineIdle(ChainKind, {}, FALSE)
    /\ NewDumper
    /\ NoResampler
    /\ NoFeed
    /\ NewEventBus({})

NextResample == NewResampleCall \/ ResampleCall

SpecResample == InitResample /\ [][NextResample]_vars

\* bytes of one sample of every channel of the input
InBytesPerFrame == BytesPerSample * LayoutChannels(rinst.inLayout)

\* C24 as stated: an input of n samples gives round(n * outputRate /
\* inputRate) output samples, and that count * 2 * output channels bytes.
C24_RoundedCount ==
    rres.kind = "ok" =>
      /\ rres.inNb = rin.len \div InBytesPerFrame
      /\ rres.outNb = Round(rres.inNb, rinst.outRate, rinst.inRate)
      /\ rres.bytes = rres.outNb * BytesPerSample * LayoutChannels(rinst.outLayout)

\* C24: whenever Resample returns output for an input of n samples, the
\* output holds the integer quotient (n * outputRate) / inputRate samples,
\* rounded down, and that count * 2 * output channels bytes.
C24_FlooredCount ==
    rres.kind = "ok" =>
      /\ rres.inNb = rin.len \div InBytesPerFrame
      /\ rres.outNb = (rres.inNb * rinst.outRate) \div rinst.inRate
      /\ rres.bytes = rres.outNb * BytesPerSample * LayoutChannels(rinst.outLayout)

\* output was returned for a ratio that is not a whole number of samples
C24_Witness ==
    /\ rres.kind = "ok"
    /\ (rres.inNb * rinst.outRate) % rinst.inRate # 0
    /\ rres.outNb # Round(rres.inNb, rinst.outRate, rinst.inRate)

\* C25: NewResample with a zero input or output rate reports an error: it
\* never hands out an instance.
C25_ZeroRateRefused ==
    rinst.made = "ok" => rinst.inRate > 0 /\ rinst.outRate > 0

\* C26: Resample returns output only for inputs that are a whole number of
\* input-layout samples: trailing bytes are never cut off silently.
C26_PartialSampleRejected ==
    rres.kind = "ok" => rin.len % InBytesPerFrame = 0

\* C27: Resample of an empty or nil input returns an error and nil output.
C27_EmptyInputIsError ==
    (rres.kind # "none" /\ rin.len = 0) => rres.kind = "err"

\* Stop() has been called on e (it is in progress or has returned)
StopBegun(e) == stopPc[e] # "idle" \/ nstop[e] > 0

\* Stop() on e has returned and no other call of it is in progress
StopReturned(e) == stopPc[e] = "idle" /\ nstop[e] > 0

\* C31: Pipeline.Stop stops the Elements in the reverse of their
\* registration order, one call after the other: once Stop has begun on an
\* Element, it has returned on every Element registered after it.
C31_StopInReverseOrder ==
    \A i \in 1..Len(Registration) :
      StopBegun(Registration[i]) =>
        \A j \in (i + 1)..Len(Registration) : StopReturned(Registration[j])

\* Pipeline.Stop has returned after stopping every Element
C31_Witness ==
    /\ ppc.op = "stopped"
    /\ \A e \in Elems : StopReturned(e)

\* C32: during Pipeline.Stop of a chain registered upstream-first, no
\* Element is torn down (its Stop has returned) while an Element registered
\* before it, upstream of it, still has a worker running.
C32_DownstreamOutlivesUpstream ==
    ppc.op = "stopping" =>
      \A i \in 1..Len(Registration), j \in 1..Len(Registration) :
        (i < j /\ StopReturned(Registration[j])) => ~Running(Registration[i])

\* C33: a message that is not audio, or is audio tagged with a media type
\* the Element does not expect, is dropped silently: the step that takes it
\* emits nothing, records no error, and leaves the worker at its select and
\* the process alive, so a later matching message is processed.
C33_NonMatchingIsDropped ==
    [][\A e \in Elems : \A msg \in {Received(e)} :
         (Takes(e, msg) /\ NonMatching(kind[e], msg)) =>
           /\ wk'[e]["w1"] = "select"
           /\ ~crashed'
           /\ hold' = hold
           /\ OutChan' = OutChan
           /\ obs'.failed = obs.failed]_vars

\* a message was emitted after a non-matching one had been sent to the Element
C33_Witness ==
    \E i \in obs.nonMatching :
      \E j \in 1..Len(OutChan["A"]) : OutChan["A"][j].id > i

\* C34: a failure of the debug-dump sink never affects the primary stream.
\* Whatever the dump of a message comes to (no dumper, a closed dumper, a
\* failed Write, a Write that went through), the decode worker goes on to
\* send the decoded message and the sink worker goes on to write it to the
\* playout buffer, and nothing fails.
C34_DumpFailureIsSwallowed ==
    [][\A e \in Elems : \A msg \in {Received(e)} :
         (Takes(e, msg) /\ obs'.dump # obs.dump) =>
           /\ obs'.dump.id = msg.id /\ obs'.dump.fwd
           /\ ~crashed' /\ obs'.failed = obs.failed
           /\ kind[e] = "decode" =>
                 /\ wk'[e]["w1"] = "send"
                 /\ hold'[e]["w1"] = Processed(kind[e], msg)
           /\ kind[e] = "sink" => wk'[e]["w1"] = "select"]_vars

\* a message whose dump failed, on a closed dumper or in the file, has come
\* out of the decode Element
C34_Witness ==
    /\ kind["A"] = "decode"
    /\ obs.dump.out \in {"closed", "failed"}
    /\ \E j \in 1..Len(OutChan["A"]) : OutChan["A"][j].id = obs.dump.id

(***************************************************************************)
(* Part 6: audio from the AI backend on its way to a PlayoutBuffer.        *)
(*                                                                         *)
(* Gateway: WebRTCServer.HandleSession receives, writes the inline audio   *)
(* to peer.audioBuffer and tests ServerContent.Interrupted.  Pipeline:     *)
(* GeminiElement's receive worker sends the inline audio on OutChan, the   *)
(* Link hands it to WebRTCSinkElement, whose input worker writes it to     *)
(* e.playout.  In both a ticker goroutine reads the buffer frame by frame. *)
(* The bytes of backend message id are the segment with src = id.          *)
(***************************************************************************)
FeedPaths == {"gateway", "pipeline"}

\* the inline audio of one backend message: 20 ms at 24 kHz
BackendAudioLen == BytesPerFrame24kHz

InitFeed ==
    /\ InitPlayout
    /\ PipelineIdle(ChainKind, {}, FALSE)
    /\ NewDumper
    /\ NoResampler
    /\ NewEventBus({})
    /\ fpath \in FeedPaths
    /\ fpc = "receive"
    /\ fmsg = NoBackendMsg
    /\ fchan = <<>>
    /\ nback = 0
    /\ fint = 0

notFeedVars ==
    <<resampler, wpc, wdata, wout, nw, last, run, closed,
      pipelineVars, dumperVars, busVars, resamplerVars>>

\* session.Receive() returns: an error ends the goroutine (the gateway ends
\* the process with log.Fatal), a message is looked at next
FeedReceive ==
    /\ fpc = "receive"
    /\ nback < MaxBackendMsgs
    /\ \/ /\ fpc' = "exited"
          /\ UNCHANGED <<fmsg, nback, fint>>
       \/ \E audio \in BOOLEAN, interrupted \in BOOLEAN :
            /\ fmsg' = BackendMsg(nback + 1, audio, interrupted)
            /\ nback' = nback + 1
            /\ fint' = IF interrupted THEN nback + 1 ELSE fint
            /\ fpc' = "audio"
    /\ UNCHANGED <<buffer, accumulating, fpath, fchan, notFeedVars>>

\* pb.Write(data) by the one writer of the buffer: the resampled bytes are
\* appended, or Resample fails and nothing is
FeedWriteResults(id) ==
    ResampleResults(id, BackendAudioLen, ResampleSetup(id, BackendAudioLen))

\* HandleSession: peer.audioBuffer.Write for the inline audio; an error is
\* log.Fatal
GatewayWrite ==
    /\ fpath = "gateway"
    /\ fpc = "audio"
    /\ IF fmsg.audio
       THEN \E res \in FeedWriteResults(fmsg.id) :
              IF res.err
              THEN fpc' = "exited" /\ UNCHANGED buffer
              ELSE /\ buffer' = WriteAppendBody(buffer, res.data)
                   /\ fpc' = "flag"
       ELSE fpc' = "flag" /\ UNCHANGED buffer
    /\ UNCHANGED <<accumulating, fpath, fmsg, fchan, nback, fint, notFeedVars>>

\* HandleSession: if message.ServerContent.Interrupted { Clear() }, then the
\* message goes out on the data channel; a failed Send leaves the loop
GatewayFlag ==
    /\ fpath = "gateway"
    /\ fpc = "flag"
    /\ IF fmsg.interrupted
       THEN /\ buffer' = ClearBody(buffer, accumulating).buffer
            /\ accumulating' = ClearBody(buffer, accumulating).accumulating
            /\ fint' = 0
       ELSE UNCHANGED <<buffer, accumulating, fint>>
    /\ fpc' \in {"receive", "exited"}
    /\ UNCHANGED <<fpath, fmsg, fchan, nback, notFeedVars>>

\* GeminiElement's receive worker: the inline audio is sent on OutChan;
\* nothing else of the message is looked at
GeminiForward ==
    /\ fpath = "pipeline"
    /\ fpc = "audio"
    /\ IF fmsg.audio
       THEN /\ Len(fchan) < QueueCap
            /\ fchan' = Append(fchan, fmsg.id)
       ELSE UNCHANGED fchan
    /\ fpc' = "receive"
    /\ UNCHANGED <<buffer, accumulating, fpath, fmsg, nback, fint, notFeedVars>>

\* WebRTCSinkElement's input worker takes the message and calls
\* e.playout.Write; an error is logged
SinkWrite ==
    /\ fpath = "pipeline"
    /\ fchan # <<>>
    /\ fchan' = Tail(fchan)
    /\ \E res \in FeedWriteResults(Head(fchan)) :
         IF res.err THEN UNCHANGED buffer
         ELSE buffer' = WriteAppendBody(buffer, res.data)
    /\ UNCHANGED <<accumulating, fpath, fpc, fmsg, nback, fint, notFeedVars>>

\* the ticker goroutine calls ReadFrame()
FeedTick ==
    /\ fpath \in FeedPaths
    /\ buffer' = ReadFrameBody(buffer, accumulating).buffer
    /\ accumulating' = ReadFrameBody(buffer, accumulating).accumulating
    /\ UNCHANGED <<feedVars, notFeedVars>>

NextFeed ==
    \/ FeedReceive
    \/ GatewayWrite
    \/ GatewayFlag
    \/ GeminiForward
    \/ SinkWrite
    \/ FeedTick

SpecFeed == InitFeed /\ [][NextFeed]_vars

\* C35: whenever the backend delivers a message carrying the interruption
\* signal, the buffer is cleared before audio of a later backend message is
\* written to it: while an interruption has not been followed by Clear(),
\* the buffer holds no byte of a message delivered after it.
C35_InterruptionClears ==
    fint # 0 => \A k \in 1..Len(buffer) : buffer[k].src <= fint

\* the bytes a ReadFrame call took out of the buffer
HandedOut(c) == BytesLen(c.buf0) - BytesLen(c.buf1)

\* C36: byte conservation in the PlayoutBuffer under every interleaving of
\* concurrent writers, the reader and Clear.  Every step leaves the buffer
\* alone, or is a Write that puts its bytes behind what is buffered, or is a
\* ReadFrame that removes from the front exactly the bytes it returns at the
\* front of its frame, or is a Clear that discards everything: Available()
\* changes by what was appended, handed out or discarded and by nothing else,
\* a byte handed out is gone from the buffer, and bytes leave in the order
\* they were appended.
C36_BytesConserved ==
    [][\/ buffer' = buffer
       \/ \E w \in Writers :
            /\ wpc[w] = "append" /\ wpc'[w] = "idle"
            /\ SameBytes(buffer', buffer \o wout[w])
            /\ BytesLen(buffer') = BytesLen(buffer) + BytesLen(wout[w])
       \/ /\ last'.op = "ReadFrame"
          /\ HandedOut(last') \in 1..BytesPerFrame48kHz
          /\ SameBytes(Take(last'.frame, HandedOut(last')),
                       Take(buffer, HandedOut(last')))
          /\ SameBytes(buffer', Drop(buffer, HandedOut(last')))
       \/ /\ last'.op = "Clear"
          /\ buffer' = <<>>]_vars

\* both writers are inside Write, about to append, behind bytes a third Write
\* left, and the reader has just taken a frame out
C36_Witness ==
    /\ \A w \in Writers : wpc[w] = "append"
    /\ buffer # <<>>
    /\ last.op = "ReadFrame"
    /\ HandedOut(last) = BytesPerFrame48kHz

\* C37: a PlayoutBuffer starts Draining and becomes Accumulating only through
\* Clear().  The fresh buffer is not accumulating; the flag is raised by no
\* call but Clear and lowered by no call but ReadFrame; a ReadFrame that
\* finds a draining buffer empty or short of a frame leaves it draining; and
\* a ReadFrame on a draining buffer that holds bytes returns them at once.
C37_AccumulatingOnlyByClear ==
    /\ [](last.op = "New" => ~accumulating)
    /\ []((last.op = "ReadFrame" /\ ~last.acc0) =>
            /\ ~last.acc1
            /\ last.buf0 # <<>> => HandedOut(last) = Min(BytesLen(last.buf0),
                                                         BytesPerFrame48kHz))
    /\ [][accumulating' # accumulating =>
            IF accumulating' THEN last'.op = "Clear" ELSE last'.op = "ReadFrame"]_vars

\* a ReadFrame underran on a draining buffer (less than a frame was buffered)
\* right after a Write, played what there was, and the buffer is still draining
C37_Witness ==
    /\ last.op = "ReadFrame" /\ last.prev = "Write"
    /\ ~last.acc0 /\ ~accumulating
    /\ HandedOut(last) \in 1..(BytesPerFrame48kHz - 1)

\* the ticker goroutine keeps calling ReadFrame(); the producers may stop
FairPlayout == WF_vars(ReadFrame)

SpecPlayoutFair == SpecPlayout /\ FairPlayout

\* C38: with a reader that keeps calling ReadFrame(), every byte appended by
\* a Write is eventually returned in a frame, also when it was written after
\* a Clear() and the upstream stopped before 5 frames were buffered: a buffer
\* that holds bytes is eventually empty.
C38_BufferedIsPlayed == (buffer # <<>>) ~> (buffer = <<>>)

\* C39: an Element worker never dereferences a missing audio payload.  A
\* worker at its select whose next message is of Type Audio without
\* AudioData, sent by a producer or yielded by a closed inbound queue, drops
\* it: its next step leaves it at the select (or ends it on ctx.Done()); it
\* neither panics nor goes on to send anything.
C39_MissingPayloadIsDropped ==
    [][\A e \in Elems :
         (/\ wk[e]["w1"] = "select"
          /\ InChan[e] # <<>> \/ inClosed[e] > 0
          /\ NilDeref(Received(e))) =>
           wk'[e]["w1"] \in {"select", "exited"}]_vars

(***************************************************************************)
(* The EventBus started and stopped while one publisher publishes numbered *)
(* events of one type to one subscriber that keeps receiving.              *)
(***************************************************************************)
NextBusStop ==
    \/ BusStart
    \/ BusStop
    \/ \E i \in 1..Len(bworkers) : BusWorker(i)
    \/ \E p \in Publishers : PublishCall(p, MaxPublishes, TRUE, FloodTypes)
                            \/ PublishSend(p)
    \/ \E ch \in FloodChans : SubscriberRecv(ch)

SpecBusStop == InitFlood /\ [][NextBusStop]_vars

\* the dispatch goroutines, the publisher inside Publish and the subscriber
\* keep running; nobody is bound to call Start again
FairBusStop ==
    /\ \A i \in 1..MaxBusStarts : WF_vars(i <= Len(bworkers) /\ BusWorker(i))
    /\ \A p \in Publishers : WF_vars(PublishSend(p))
    /\ \A ch \in FloodChans : WF_vars(SubscriberRecv(ch))

SpecBusStopFair == SpecBusStop /\ FairBusStop

\* Publish has put the event on b.eventChan and returned
Queued(evt) == \E j \in 1..Len(eventChan) : eventChan[j] = evt

\* the event was sent into the channel, or found it full
Dispatched(evt, ch) ==
    \/ \E j \in 1..Len(bobs.sent[ch]) : bobs.sent[ch][j] = evt
    \/ <<evt, ch>> \in bobs.dropped

SentIds(ch) == [j \in 1..Len(bobs.sent[ch]) |-> bobs.sent[ch][j].id]

\* C40: every event accepted by Publish is eventually dispatched to the
\* subscribers of its type, or dropped because the subscriber's channel is
\* full, also when Stop() comes before the dispatch goroutine has drained
\* the queue; and the events of one publisher reach a subscriber in publish
\* order across Start/Stop.
C40_AcceptedIsDispatched ==
    /\ \A t \in FloodTypes, ch \in FloodChans, n \in 1..MaxPublishes :
         Queued(Event(t, n)) ~> Dispatched(Event(t, n), ch)
    /\ [](\A ch \in FloodChans : Increasing(SentIds(ch)))
====
